---- MODULE Spec2Model ----
(***************************************************************************)
(* Thai -> ThSL reordering and lexical-resolution engine.                  *)
(*                                                                         *)
(* A token is a sequence of symbols.  A symbol is a whitespace character   *)
(* SP, a zero-width mark ZW, a digit, or one Thai word written in Latin    *)
(* letters (the Thai literals of the source are transliterated, e.g.       *)
(* "mai" is the negator of isNeg, "tualek" the numeral category).          *)
(***************************************************************************)
EXTENDS Integers, Sequences, FiniteSets, Bags, TLC

VARIABLES
  pc,         \* "tokens" | "tagged" | "lookup" | "request" | "done"
  via,        \* which entry point produced the outputs ("none" before)
  tokens,     \* the token list handed to the entry point
  tagged,     \* the tagged tokens (word, role)
  ruleId,     \* id of the matched rule, NoRule for null
  thsl,       \* the ordered word list
  roleMap,    \* rows of sl_category_role (category, role, priority)
  data,       \* rows of SL_word returned for the request
  processed,  \* ResultPage: the resolved entries handed to setFoundWords
  found,      \* serve: the rows picked, one per token with a dictionary row
  missing,    \* serve: the tokens with no dictionary row
  props,      \* ResultPage: resultData of the current render (text, keywords)
  runs,       \* ResultPage: the locals of every run() the effect has started
  ui,         \* ResultPage: the component state the runs write
  applied,    \* one tagged list and what the two rule engines return for it
  norm,       \* one string and what the two normalizers return for it
  player      \* PosePlayer: the component state and the loads it has started

vars == <<pc, via, tokens, tagged, ruleId, thsl, roleMap, data, processed,
          found, missing, props, runs, ui, applied, norm, player>>

\* the state of the ResultPage component
pageVars == <<props, runs, ui>>

\* the state of the engine comparison, of the normalizers and of the
\* PosePlayer component
sideVars == <<applied, norm, player>>

-----------------------------------------------------------------------------
(* Bounds of the model *)

\* longest role sequence drawn freely over all roles
MaxFree == 2
\* most UNK-tagged tokens inserted into a rule's pattern
MaxUnk == 1
\* longest token list over the core words handed to toThslTokens / toThslOrder
MaxTokens == 4
\* longest token list over the whole lexicon sample
MaxTokFull == 2
\* most SL_word rows returned for one lookup
MaxRows == 3
\* longest token list of one lookup
MaxReq == 3

-----------------------------------------------------------------------------
(* Symbols and tokens *)

SP == " "
ZW == "<zw>"
WhiteSpace == {SP}
ZeroWidth == {ZW}
Digits == {"0", "1", "2", "3", "4", "5", "6", "7", "8", "9"}

RECURSIVE TrimLeft(_)
TrimLeft(s) ==
  IF s # <<>> /\ Head(s) \in WhiteSpace THEN TrimLeft(Tail(s)) ELSE s

RECURSIVE TrimRight(_)
TrimRight(s) ==
  IF s # <<>> /\ s[Len(s)] \in WhiteSpace
  THEN TrimRight(SubSeq(s, 1, Len(s) - 1))
  ELSE s

\* String.prototype.trim
Trim(s) == TrimRight(TrimLeft(s))

\* /^[0-9]+$/.test(token)
isNumberToken(token) ==
  /\ Len(token) >= 1
  /\ \A i \in 1..Len(token) : token[i] \in Digits

\* Boolean(s) of a string: the empty string is falsy
Truthy(s) == s # <<>>

-----------------------------------------------------------------------------
(* Roles and the rule table *)

NoRule == 0

Role == {"S", "V", "O", "NEG", "PP(Place)", "Adv(Time)", "ClausalVerb",
         "NP", "PAdj", "ComparativeAdj", "Money", "Number", "Currency",
         "Age", "Year", "Break", "Adj", "Adj1", "Adj2",
         "When/Why/Where/How(?)", "Whose(?)", "Who(?)", "What(?)", "Q(?)",
         "Pronoun", "V2B"}

TaggedRole == Role \cup {"UNK"}

Rule(id, thaiPattern, thslOrder) ==
  [id |-> id, thaiPattern |-> thaiPattern, thslOrder |-> thslOrder]

Rules1to20 == <<
  Rule(1, <<"S","V">>, <<"S","V">>),
  Rule(2, <<"S","NEG","V">>, <<"S","NEG","V">>),
  Rule(3, <<"S","V","O">>, <<"O","S","V">>),
  Rule(4, <<"S","NEG","V","O">>, <<"O","S","V","NEG">>),
  Rule(5, <<"S","V","O","O">>, <<"O","O","S","V">>),
  Rule(6, <<"S","NEG","V","O","O">>, <<"O","O","S","V","NEG">>),
  Rule(7, <<"O","S","V">>, <<"O","S","V">>),
  Rule(8, <<"O","NEG","S","V">>, <<"O","S","V","NEG">>),
  Rule(9, <<"S","V","PP(Place)">>, <<"PP(Place)","S","V">>),
  Rule(10, <<"S","V","NEG","PP(Place)">>, <<"PP(Place)","S","V","NEG">>),
  Rule(11, <<"S","V","O","PP(Place)">>, <<"PP(Place)","O","S","V">>),
  Rule(12, <<"S","NEG","V","O","PP(Place)">>,
           <<"PP(Place)","O","S","V","NEG">>),
  Rule(13, <<"S","V","Adv(Time)">>, <<"Adv(Time)","S","V">>),
  Rule(14, <<"S","NEG","V","Adv(Time)">>, <<"Adv(Time)","S","V","NEG">>),
  Rule(15, <<"S","V","O","Adv(Time)">>, <<"Adv(Time)","O","S","V">>),
  Rule(16, <<"S","NEG","V","O","Adv(Time)">>,
           <<"Adv(Time)","O","S","V","NEG">>),
  Rule(17, <<"S","V","ClausalVerb">>, <<"ClausalVerb","S","V">>),
  Rule(18, <<"S","NEG","V","ClausalVerb">>, <<"ClausalVerb","S","V","NEG">>),
  Rule(19, <<"S","V","ClausalVerb","O">>, <<"O","ClausalVerb","S","V">>),
  Rule(20, <<"S","NEG","V","ClausalVerb","O">>,
           <<"O","ClausalVerb","S","V","NEG">>) >>

Rules21to40 == <<
  Rule(21, <<"NP","PAdj","V">>, <<"PAdj","NP","V">>),
  Rule(22, <<"NP","PAdj","NEG","V">>, <<"PAdj","NP","V","NEG">>),
  Rule(23, <<"NP","PAdj","V","O">>, <<"O","PAdj","NP","V">>),
  Rule(24, <<"NP","PAdj","NEG","V","O">>, <<"O","PAdj","NP","V","NEG">>),
  Rule(25, <<"S","ComparativeAdj","O">>, <<"O","S","ComparativeAdj">>),
  Rule(26, <<"S","V","Money","Number","Currency">>,
           <<"Currency","Number","S","V">>),
  Rule(27, <<"S","Age","Number","Year">>, <<"S","Age/Year","Number">>),
  Rule(28, <<"S","Break","O">>, <<"O","S","Break">>),
  Rule(29, <<"S","V","O","PP(Place)","Adv(Time)">>,
           <<"Adv(Time)","PP(Place)","O","S","V">>),
  Rule(30, <<"S","NEG","V","O","PP(Place)","Adv(Time)">>,
           <<"Adv(Time)","PP(Place)","O","S","V","NEG">>),
  Rule(31, <<"S","Adj","V","O","Adj">>, <<"O","Adj","S","Adj","V">>),
  Rule(32, <<"S","V","When/Why/Where/How(?)">>,
           <<"S","V","When/Why/Where/How(?)">>),
  Rule(33, <<"O","Whose(?)">>, <<"O","Whose(?)">>),
  Rule(34, <<"Pronoun","V2B","Who(?)">>, <<"Pronoun","V2B","Who(?)">>),
  Rule(35, <<"S","V","O","Q(?)">>, <<"O","S","V","Q(?)">>),
  Rule(36, <<"S","V","What(?)">>, <<"S","V","What(?)">>),
  Rule(37, <<"O","Adj">>, <<"O","Adj">>),
  Rule(38, <<"O","NEG","Adj">>, <<"O","NEG","Adj">>),
  Rule(39, <<"O","Adj1","Adj2">>, <<"O","Adj1","Adj2">>),
  Rule(40, <<"O","Adj1","NEG","Adj2">>, <<"O","Adj1","Adj2","NEG">>) >>

\* mutant: rule 4 signs the negator before the verb
THSL_RULES_negBeforeVerb ==
  [(Rules1to20 \o Rules21to40) EXCEPT ![4].thslOrder = <<"O", "S", "NEG", "V">>]

\* mutant: rule 37 repeats the input pattern of rule 33
THSL_RULES_duplicatePattern ==
  [(Rules1to20 \o Rules21to40) EXCEPT ![37].thaiPattern = <<"O", "Whose(?)">>]

\* mutant: the output of rule 3 has no slot for the verb
THSL_RULES_missingSlot ==
  [(Rules1to20 \o Rules21to40) EXCEPT ![3].thslOrder = <<"O", "S">>]

THSL_RULES == Rules1to20 \o Rules21to40

-----------------------------------------------------------------------------
(* Helpers shared by the engines *)

\* mutant: the UNK roles stay in the pattern
rolesOf_keepUnk(tg) == [i \in 1..Len(tg) |-> tg[i].role]

\* tagged.map(t => t.role).filter(r => r !== "UNK")
RECURSIVE rolesOf(_)
rolesOf(tg) ==
  IF tg = <<>> THEN <<>>
  ELSE IF Head(tg).role # "UNK"
       THEN <<Head(tg).role>> \o rolesOf(Tail(tg))
       ELSE rolesOf(Tail(tg))

\* tagged.map(t => t.word)
wordsOf(tg) == [i \in 1..Len(tg) |-> tg[i].word]

\* tagged.findIndex((t, i) => !used.has(i) && t.role === role), 1-based;
\* 0 stands for JavaScript's -1
FindIndex(tg, used, role) ==
  LET hits == {i \in 1..Len(tg) : i \notin used /\ tg[i].role = role}
  IN IF hits = {} THEN 0 ELSE CHOOSE i \in hits : \A j \in hits : i <= j

\* tagged.forEach((t, i) => { if (!used.has(i)) out.push(t.word) })
RECURSIVE AppendUnused(_, _, _, _)
AppendUnused(tg, used, i, out) ==
  IF i > Len(tg) THEN out
  ELSE AppendUnused(tg, used, i + 1,
                    IF i \notin used THEN Append(out, tg[i].word) ELSE out)

\* mutant: the length test is missing, so a prefix of a pattern matches
PatternMatches_prefix(pattern, thaiPattern) ==
  /\ Len(pattern) <= Len(thaiPattern)
  /\ \A i \in 1..Len(pattern) : pattern[i] = thaiPattern[i]

\* the comparison loop of findExactRule: equal length, equal role by position
PatternMatches(pattern, thaiPattern) ==
  /\ Len(thaiPattern) = Len(pattern)
  /\ \A i \in 1..Len(pattern) : pattern[i] = thaiPattern[i]

-----------------------------------------------------------------------------
(* services/thslEngine.ts *)

\* uniqPreserveOrder of thslRules: trim, drop blanks, drop repeats
RECURSIVE Rules_uniqLoop(_, _, _)
Rules_uniqLoop(words, seen, out) ==
  IF words = <<>> THEN out
  ELSE LET t == Trim(Head(words)) IN
       IF ~Truthy(t) THEN Rules_uniqLoop(Tail(words), seen, out)
       ELSE IF t \in seen THEN Rules_uniqLoop(Tail(words), seen, out)
       ELSE Rules_uniqLoop(Tail(words), seen \cup {t}, Append(out, t))

Rules_uniqPreserveOrder(words) == Rules_uniqLoop(words, {}, <<>>)

isNeg(token) == token \in {<<"mai">>, <<"mai-mi">>, <<"ham">>}

isTimeWord(token) ==
  token \in {<<"wan-ni">>, <<"phrung-ni">>, <<"muea-wan">>, <<"ton-ni">>,
             <<"chao">>, <<"sai">>, <<"bai">>, <<"yen">>, <<"klang-khuen">>}

isPlaceWord(token) ==
  token \in {<<"ban">>, <<"rong-rian">>, <<"maha-witthayalai">>, <<"talat">>,
             <<"rong-phayaban">>, <<"thi-tham-ngan">>, <<"hong-nam">>}

isQuestionWord(token) ==
  token \in {<<"muea-rai">>, <<"thammai">>, <<"thi-nai">>, <<"yang-rai">>,
             <<"yang-ngai">>}

isWhat(token) == token = <<"arai">>

isWho(token) == token = <<"khrai">>

isWhose(token) == token = <<"khong-khrai">>

isQParticle(token) == token \in {<<"mai?">>, <<"rue-plao">>, <<"?">>}

isPronoun(w) ==
  w \in {<<"chan">>, <<"phom">>, <<"nu">>, <<"rao">>, <<"khun">>, <<"khao">>,
         <<"thoe">>, <<"man">>, <<"phuak-rao">>}

isVerb(w) ==
  w \in {<<"pai">>, <<"ma">>, <<"kin">>, <<"non">>, <<"rian">>, <<"tham-ngan">>,
         <<"du">>, <<"sue">>, <<"khai">>, <<"chop">>, <<"rak">>, <<"chuai">>}

\* the role the map callback of tagTokens gives one cleaned word
Engine_roleOf(w) ==
  IF isNeg(w) THEN "NEG"
  ELSE IF isNumberToken(w) THEN "Number"
  ELSE IF isTimeWord(w) THEN "Adv(Time)"
  ELSE IF isPlaceWord(w) THEN "PP(Place)"
  ELSE IF isQuestionWord(w) THEN "When/Why/Where/How(?)"
  ELSE IF isWhat(w) THEN "What(?)"
  ELSE IF isWhose(w) THEN "Whose(?)"
  ELSE IF isWho(w) THEN "Who(?)"
  ELSE IF isQParticle(w) THEN "Q(?)"
  ELSE IF isPronoun(w) THEN "S"
  ELSE IF isVerb(w) THEN "V"
  ELSE "O"

tagTokens(toks) ==
  LET cleaned == Rules_uniqPreserveOrder(toks)
  IN [i \in 1..Len(cleaned) |->
        [word |-> cleaned[i], role |-> Engine_roleOf(cleaned[i])]]

\* the scan of findExactRule from rule k on: index of the first rule whose
\* thaiPattern equals the pattern, NoRule when the table is exhausted
RECURSIVE Engine_scan(_, _)
Engine_scan(pattern, k) ==
  IF k > Len(THSL_RULES) THEN NoRule
  ELSE IF PatternMatches(pattern, THSL_RULES[k].thaiPattern) THEN k
  ELSE Engine_scan(pattern, k + 1)

Engine_findExactRule(tg) == Engine_scan(rolesOf(tg), 1)

\* the for-loop of reorder over thslOrder, from slot k on
RECURSIVE Engine_slots(_, _, _, _, _)
Engine_slots(tg, thslOrder, k, used, out) ==
  IF k > Len(thslOrder) THEN [used |-> used, out |-> out]
  ELSE
    LET role == thslOrder[k] IN
    IF role = "Age/Year"
    THEN LET idxAge == FindIndex(tg, used, "Age")
             idxYear == FindIndex(tg, used, "Year")
         IN IF idxAge > 0
            THEN Engine_slots(tg, thslOrder, k + 1, used \cup {idxAge},
                              Append(out, tg[idxAge].word))
            ELSE IF idxYear > 0
            THEN Engine_slots(tg, thslOrder, k + 1, used \cup {idxYear},
                              Append(out, tg[idxYear].word))
            ELSE Engine_slots(tg, thslOrder, k + 1, used, out)
    ELSE LET idx == FindIndex(tg, used, role)
         IN IF idx > 0
            THEN Engine_slots(tg, thslOrder, k + 1, used \cup {idx},
                              Append(out, tg[idx].word))
            ELSE Engine_slots(tg, thslOrder, k + 1, used, out)

\* the trailing forEach of reorder: the words no slot took
Engine_leftover(tg, used, out) == AppendUnused(tg, used, 1, out)

reorder(tg, thslOrder) ==
  LET r == Engine_slots(tg, thslOrder, 1, {}, <<>>)
  IN Engine_leftover(tg, r.used, r.out)

\* toThslTokens: {thsl, ruleId, tagged}
toThslTokens(toks) ==
  LET tg == tagTokens(toks)
      k == Engine_findExactRule(tg)
  IN IF k = NoRule
     THEN [thsl |-> wordsOf(tg), ruleId |-> NoRule, tagged |-> tg]
     ELSE [thsl |-> reorder(tg, THSL_RULES[k].thslOrder),
           ruleId |-> THSL_RULES[k].id, tagged |-> tg]

-----------------------------------------------------------------------------
(* pages/ResultPage.tsx: the rule engine *)

RECURSIVE Page_scan(_, _)
Page_scan(pattern, k) ==
  IF k > Len(THSL_RULES) THEN NoRule
  ELSE IF PatternMatches(pattern, THSL_RULES[k].thaiPattern) THEN k
  ELSE Page_scan(pattern, k + 1)

\* mutant: the UNK roles stay in the pattern of the page's findExactRule
Page_findExactRule_keepUnk(tg) ==
  Page_scan([i \in 1..Len(tg) |-> tg[i].role], 1)

Page_findExactRule(tg) == Page_scan(rolesOf(tg), 1)

\* mutant: the Age/Year slot emits the Age word and the Year word
RECURSIVE Page_slots_ageAndYear(_, _, _, _, _)
Page_slots_ageAndYear(tg, thslOrder, k, used, out) ==
  IF k > Len(thslOrder) THEN [used |-> used, out |-> out]
  ELSE
    LET role == thslOrder[k] IN
    IF role = "Age/Year"
    THEN LET idxAge == FindIndex(tg, used, "Age")
             idxYear == FindIndex(tg, used, "Year")
             picked == SelectSeq(<<idxAge, idxYear>>, LAMBDA i : i > 0)
         IN Page_slots_ageAndYear(tg, thslOrder, k + 1,
                                  used \cup {picked[j] : j \in 1..Len(picked)},
                                  out \o [j \in 1..Len(picked) |-> tg[picked[j]].word])
    ELSE LET idx == FindIndex(tg, used, role)
         IN IF idx > 0
            THEN Page_slots_ageAndYear(tg, thslOrder, k + 1, used \cup {idx},
                                       Append(out, tg[idx].word))
            ELSE Page_slots_ageAndYear(tg, thslOrder, k + 1, used, out)

RECURSIVE Page_slots(_, _, _, _, _)
Page_slots(tg, thslOrder, k, used, out) ==
  IF k > Len(thslOrder) THEN [used |-> used, out |-> out]
  ELSE
    LET role == thslOrder[k] IN
    IF role = "Age/Year"
    THEN LET idxAge == FindIndex(tg, used, "Age")
             idxYear == FindIndex(tg, used, "Year")
         IN IF idxAge > 0
            THEN Page_slots(tg, thslOrder, k + 1, used \cup {idxAge},
                            Append(out, tg[idxAge].word))
            ELSE IF idxYear > 0
            THEN Page_slots(tg, thslOrder, k + 1, used \cup {idxYear},
                            Append(out, tg[idxYear].word))
            ELSE Page_slots(tg, thslOrder, k + 1, used, out)
    ELSE LET idx == FindIndex(tg, used, role)
         IN IF idx > 0
            THEN Page_slots(tg, thslOrder, k + 1, used \cup {idx},
                            Append(out, tg[idx].word))
            ELSE Page_slots(tg, thslOrder, k + 1, used, out)

\* mutant: the words no slot took are not appended
Page_leftover_dropped(tg, used, out) == out

\* mutant: the words no slot took come before the words of the slots
Page_leftover_front(tg, used, out) == AppendUnused(tg, used, 1, <<>>) \o out

\* the trailing forEach of reorderByRule: the words no slot took
Page_leftover(tg, used, out) == AppendUnused(tg, used, 1, out)

reorderByRule(tg, thslOrder) ==
  LET r == Page_slots(tg, thslOrder, 1, {}, <<>>)
  IN SelectSeq(Page_leftover(tg, r.used, r.out), Truthy)

\* steps 6 and 7 of run: the matched rule and orderedTokens
Page_matchAndOrder(tg) ==
  LET k == Page_findExactRule(tg)
  IN IF k # NoRule
     THEN [ruleId |-> THSL_RULES[k].id,
           orderedTokens |-> reorderByRule(tg, THSL_RULES[k].thslOrder)]
     ELSE [ruleId |-> NoRule, orderedTokens |-> wordsOf(tg)]

-----------------------------------------------------------------------------
(* The earlier ResultPage (keyword-only rule engine, toThslOrder) *)

\* cleanTokens: trim, drop blanks, keep repeats
Old_cleanTokens(toks) ==
  SelectSeq([i \in 1..Len(toks) |-> Trim(toks[i])], Truthy)

tagToken(w) ==
  IF isNeg(w) THEN "NEG"
  ELSE IF isTimeWord(w) THEN "Adv(Time)"
  ELSE IF isPlaceWord(w) THEN "PP(Place)"
  ELSE IF isPronoun(w) THEN "S"
  ELSE IF isVerb(w) THEN "V"
  ELSE IF w \in {<<"mai?">>, <<"?">>, <<"rue-plao">>} THEN "Q"
  ELSE IF isNumberToken(w) THEN "O"
  ELSE "O"

\* takeRole: the first unused token of the role, if any, is used and pushed
takeRole(tg, st, role) ==
  LET idx == FindIndex(tg, st.used, role)
  IN IF idx > 0
     THEN [used |-> st.used \cup {idx}, out |-> Append(st.out, tg[idx].word)]
     ELSE st

\* mutant: the O slot takes the first unused O word only
takeAllO_firstOnly(tg, st, i) == takeRole(tg, st, "O")

\* tagged.forEach((x, i) => { if (!used.has(i) && x.role === 'O') ... }):
\* every unused O token is used and pushed, in order
RECURSIVE takeAllO(_, _, _)
takeAllO(tg, st, i) ==
  IF i > Len(tg) THEN st
  ELSE takeAllO(tg,
                IF i \notin st.used /\ tg[i].role = "O"
                THEN [used |-> st.used \cup {i},
                      out |-> Append(st.out, tg[i].word)]
                ELSE st,
                i + 1)

\* the trailing forEach of every branch: the words not yet used
Old_leftover(tg, st) == AppendUnused(tg, st.used, 1, st.out)

Includes(roles, r) == \E i \in 1..Len(roles) : roles[i] = r

\* the tagged list toThslOrder builds from its tokens
Old_tagged(toks) ==
  LET cleaned == Old_cleanTokens(toks)
  IN [i \in 1..Len(cleaned) |->
        [word |-> cleaned[i], role |-> tagToken(cleaned[i])]]

toThslOrder(toks) ==
  LET tg == Old_tagged(toks)
      roles == [i \in 1..Len(tg) |-> tg[i].role]
      st0 == [used |-> {}, out |-> <<>>]
  IN
  IF Includes(roles, "S") /\ Includes(roles, "V") /\ Includes(roles, "NEG")
     /\ Includes(roles, "Adv(Time)")
  THEN LET a == takeRole(tg, st0, "Adv(Time)")
           b == takeAllO(tg, a, 1)
           c == takeRole(tg, b, "S")
           d == takeRole(tg, c, "V")
           e == takeRole(tg, d, "NEG")
       IN Old_leftover(tg, e)
  ELSE IF Includes(roles, "S") /\ Includes(roles, "V")
          /\ Includes(roles, "Adv(Time)")
  THEN LET a == takeRole(tg, st0, "Adv(Time)")
           b == takeAllO(tg, a, 1)
           c == takeRole(tg, b, "S")
           d == takeRole(tg, c, "V")
       IN Old_leftover(tg, d)
  ELSE IF Includes(roles, "PP(Place)") /\ Includes(roles, "S")
          /\ Includes(roles, "V")
  THEN LET a == takeRole(tg, st0, "PP(Place)")
           b == takeAllO(tg, a, 1)
           c == takeRole(tg, b, "S")
           d == takeRole(tg, c, "V")
           e == takeRole(tg, d, "NEG")
       IN Old_leftover(tg, e)
  ELSE IF Includes(roles, "S") /\ Includes(roles, "V")
  THEN LET b == takeAllO(tg, st0, 1)
           c == takeRole(tg, b, "S")
           d == takeRole(tg, c, "V")
           e == takeRole(tg, d, "NEG")
       IN Old_leftover(tg, e)
  ELSE wordsOf(tg)

-----------------------------------------------------------------------------
(* Inputs of the rule engines *)

InsertAt(s, i, x) == SubSeq(s, 1, i) \o <<x>> \o SubSeq(s, i + 1, Len(s))

RemoveAt(s, i) == SubSeq(s, 1, i - 1) \o SubSeq(s, i + 1, Len(s))

SeqsUpTo(S, n) == UNION {[1..m -> S] : m \in 0..n}

Patterns == {THSL_RULES[k].thaiPattern : k \in 1..Len(THSL_RULES)}

\* the sequences of S with up to n UNK roles inserted anywhere
RECURSIVE UnkInserted(_, _)
UnkInserted(S, n) ==
  IF n = 0 THEN S
  ELSE S \cup UnkInserted(
              UNION {{InsertAt(p, i, "UNK") : i \in 0..Len(p)} : p \in S}, n - 1)

\* role sequences: short free ones, the rules' patterns (with UNK tokens in
\* between), and the patterns with one role more or one role less
RoleSeqInputs ==
  SeqsUpTo(TaggedRole, MaxFree)
  \cup UnkInserted(Patterns, MaxUnk)
  \cup UNION {{InsertAt(p, i, r) : i \in 0..Len(p), r \in Role} : p \in Patterns}
  \cup UNION {{RemoveAt(p, i) : i \in 1..Len(p)} : p \in Patterns}

\* the words of a tagged list are distinct normalized tokens
WordAt(i) == <<"w" \o ToString(i)>>

TaggedOf(rs) == [i \in 1..Len(rs) |-> [word |-> WordAt(i), role |-> rs[i]]]

\* one word of every branch of the taggers, an untrimmed word, a blank
LexSample == {<<"mai">>, <<"5">>, <<"wan-ni">>, <<"ban">>, <<"thammai">>,
              <<"arai">>, <<"khong-khrai">>, <<"khrai">>, <<"mai?">>,
              <<"chan">>, <<"kin">>, <<"khaaw">>, <<SP, "chan">>, <<SP>>}

LexCore == {<<"chan">>, <<"kin">>, <<"khaaw">>, <<"nangsue">>, <<"mai">>,
            <<"chan", SP>>}

TokenInputs == SeqsUpTo(LexSample, MaxTokFull) \cup SeqsUpTo(LexCore, MaxTokens)

-----------------------------------------------------------------------------
(* The rule engines as a state machine *)

\* the component state after construction (the useState initial values, the
\* prevBlobUrl ref); revoked collects the object URLs handed to
\* URL.revokeObjectURL, writer is the run whose write was applied last
UiInit ==
  [foundWords |-> <<>>, currentSinglePose |-> <<>>, sentenceVideoUrl |-> <<>>,
   loadingKeywords |-> FALSE, loadingSentenceVideo |-> FALSE,
   prevBlobUrl |-> <<>>, revoked |-> {}, writer |-> 0]

\* no ResultPage is mounted
PageIdle ==
  /\ props = [text |-> <<>>, keywords |-> <<>>]
  /\ runs = <<>>
  /\ ui = UiInit

\* no tagged list has been handed to the two engines
AppliedIdle == [tagged |-> <<>>, thslOrder |-> <<>>, engine |-> <<>>, page |-> <<>>]

\* no PosePlayer is mounted
PlayerIdle ==
  [mounted |-> FALSE, loopPlaylist |-> FALSE, playlist |-> <<>>,
   currentUrlIndex |-> 0, frames |-> <<>>, err |-> <<>>, loads |-> <<>>,
   staleWrite |-> FALSE]

\* no string has been handed to the normalizers
NormIdle == [input |-> <<>>, thai |-> <<>>, server |-> <<>>]

Idle ==
  /\ applied = AppliedIdle
  /\ norm = NormIdle
  /\ player = PlayerIdle
  /\ via = "none"
  /\ ruleId = NoRule
  /\ thsl = <<>>
  /\ processed = <<>>
  /\ found = <<>>
  /\ missing = <<>>

Init ==
  /\ Idle
  /\ PageIdle
  /\ roleMap = <<>>
  /\ data = <<>>
  /\ \/ pc = "tokens" /\ tokens \in TokenInputs /\ tagged = <<>>
     \/ pc = "tagged" /\ tokens = <<>>
        /\ tagged \in {TaggedOf(rs) : rs \in RoleSeqInputs}

\* thslEngine.ts: toThslTokens(tokens)
ToThslTokens ==
  /\ pc = "tokens"
  /\ LET r == toThslTokens(tokens)
     IN /\ tagged' = r.tagged
        /\ ruleId' = r.ruleId
        /\ thsl' = r.thsl
  /\ via' = "toThslTokens"
  /\ pc' = "done"
  /\ UNCHANGED <<tokens, roleMap, data, processed, found, missing>>
  /\ UNCHANGED pageVars
  /\ UNCHANGED sideVars

\* the earlier ResultPage: toThslOrder(tokens)
ToThslOrder ==
  /\ pc = "tokens"
  /\ tagged' = Old_tagged(tokens)
  /\ thsl' = toThslOrder(tokens)
  /\ via' = "toThslOrder"
  /\ pc' = "done"
  /\ UNCHANGED <<tokens, ruleId, roleMap, data, processed, found, missing>>
  /\ UNCHANGED pageVars
  /\ UNCHANGED sideVars

\* ResultPage.tsx run, steps 6 and 7, on the tagged list of step 5
MatchAndOrder ==
  /\ pc = "tagged"
  /\ LET r == Page_matchAndOrder(tagged)
     IN /\ ruleId' = r.ruleId
        /\ thsl' = r.orderedTokens
  /\ via' = "run"
  /\ pc' = "done"
  /\ UNCHANGED <<tokens, tagged, roleMap, data, processed, found, missing>>
  /\ UNCHANGED pageVars
  /\ UNCHANGED sideVars

Next == ToThslTokens \/ ToThslOrder \/ MatchAndOrder

Spec == Init /\ [][Next]_vars

-----------------------------------------------------------------------------
(* The two rule engines applied to the same tagged list *)

\* longest tagged list handed to reorder with a given output role list
MaxDirect == 4

\* the same list with an empty word at position i
EmptyWordAt(tg, i) == [tg EXCEPT ![i].word = <<>>]

\* tagged lists for findExactRule: those of RoleSeqInputs, and the rules'
\* patterns with one empty word
MatchInputs ==
  {TaggedOf(rs) : rs \in RoleSeqInputs}
  \cup UNION {{EmptyWordAt(TaggedOf(p), i) : i \in 1..Len(p)} : p \in Patterns}

\* tagged lists over the roles of rule 27, for reorder with the output role
\* lists of rules 26 and 27 (whether or not the list matches the rule)
DirectInputs == {TaggedOf(rs) : rs \in SeqsUpTo({"S", "Age", "Number", "Year", "UNK"}, MaxDirect)}

DirectOrders == {THSL_RULES[26].thslOrder, THSL_RULES[27].thslOrder}

InitEngines ==
  /\ via = "none"
  /\ ruleId = NoRule
  /\ thsl = <<>>
  /\ processed = <<>>
  /\ found = <<>>
  /\ missing = <<>>
  /\ PageIdle
  /\ norm = NormIdle
  /\ player = PlayerIdle
  /\ pc = "apply"
  /\ tokens = <<>>
  /\ tagged = <<>>
  /\ roleMap = <<>>
  /\ data = <<>>
  /\ \/ \E tg \in MatchInputs :
          applied = [AppliedIdle EXCEPT !.tagged = tg]
     \/ \E tg \in DirectInputs, order \in DirectOrders :
          applied = [AppliedIdle EXCEPT !.tagged = tg, !.thslOrder = <<order>>]

\* thslEngine.ts: findExactRule, then reorder with the order of the rule
Engine_matchAndOrder(tg) ==
  LET k == Engine_findExactRule(tg)
  IN IF k = NoRule
     THEN [ruleId |-> NoRule, out |-> wordsOf(tg)]
     ELSE [ruleId |-> THSL_RULES[k].id, out |-> reorder(tg, THSL_RULES[k].thslOrder)]

\* thslEngine.ts: findExactRule and reorder on the tagged list
EngineMatch ==
  /\ pc = "apply"
  /\ applied.thslOrder = <<>>
  /\ applied.engine = <<>>
  /\ applied' = [applied EXCEPT !.engine = <<Engine_matchAndOrder(applied.tagged)>>]
  /\ UNCHANGED <<pc, via, tokens, tagged, ruleId, thsl, roleMap, data,
                 processed, found, missing, norm, player>>
  /\ UNCHANGED pageVars

\* ResultPage.tsx: findExactRule and reorderByRule on the tagged list
PageMatch ==
  /\ pc = "apply"
  /\ applied.thslOrder = <<>>
  /\ applied.page = <<>>
  /\ applied' = [applied EXCEPT !.page =
        LET r == Page_matchAndOrder(applied.tagged)
        IN <<[ruleId |-> r.ruleId, out |-> r.orderedTokens]>>]
  /\ UNCHANGED <<pc, via, tokens, tagged, ruleId, thsl, roleMap, data,
                 processed, found, missing, norm, player>>
  /\ UNCHANGED pageVars

\* thslEngine.ts: reorder(tagged, thslOrder)
EngineReorder ==
  /\ pc = "apply"
  /\ applied.thslOrder # <<>>
  /\ applied.engine = <<>>
  /\ applied' = [applied EXCEPT !.engine =
        <<[ruleId |-> NoRule, out |-> reorder(applied.tagged, applied.thslOrder[1])]>>]
  /\ UNCHANGED <<pc, via, tokens, tagged, ruleId, thsl, roleMap, data,
                 processed, found, missing, norm, player>>
  /\ UNCHANGED pageVars

\* ResultPage.tsx: reorderByRule(tagged, thslOrder)
PageReorder ==
  /\ pc = "apply"
  /\ applied.thslOrder # <<>>
  /\ applied.page = <<>>
  /\ applied' = [applied EXCEPT !.page =
        <<[ruleId |-> NoRule,
           out |-> reorderByRule(applied.tagged, applied.thslOrder[1])]>>]
  /\ UNCHANGED <<pc, via, tokens, tagged, ruleId, thsl, roleMap, data,
                 processed, found, missing, norm, player>>
  /\ UNCHANGED pageVars

NextEngines == EngineMatch \/ PageMatch \/ EngineReorder \/ PageReorder

SpecEngines == InitEngines /\ [][NextEngines]_vars

-----------------------------------------------------------------------------
(* Properties of the rule engines (checked under Spec) *)

Range(s) == {s[i] : i \in 1..Len(s)}

BagOfSeq(s) == [w \in Range(s) |-> Cardinality({i \in 1..Len(s) : s[i] = w})]

allRoles(tg) == [i \in 1..Len(tg) |-> tg[i].role]

\* the indices of the tokens of a role, ascending
RECURSIVE IndicesOf(_, _, _)
IndicesOf(tg, role, i) ==
  IF i > Len(tg) THEN <<>>
  ELSE (IF tg[i].role = role THEN <<i>> ELSE <<>>) \o IndicesOf(tg, role, i + 1)

CountIn(s, x, j) == Cardinality({i \in 1..j : s[i] = x})

ByRule == pc = "done" /\ via \in {"toThslTokens", "run"}

Matched == ByRule /\ ruleId # NoRule

nonUnkRoles(tg) == SelectSeq(allRoles(tg), LAMBDA r : r # "UNK")

RuleById(id) == CHOOSE r \in Range(THSL_RULES) : r.id = id

SomePatternEquals(rs) == \E k \in 1..Len(THSL_RULES) : THSL_RULES[k].thaiPattern = rs

\* C1: whenever a rule matched, the reordered word list is a permutation of
\* the tagged words: same multiset of words, same length.
C1_Permutation ==
  Matched =>
    /\ Len(thsl) = Len(tagged)
    /\ BagOfSeq(thsl) = BagOfSeq(wordsOf(tagged))

\* C1 witness: a rule matched a list holding an UNK token, and the output
\* differs from the input order.
C1_Witness ==
  /\ Matched
  /\ \E i \in 1..Len(tagged) : tagged[i].role = "UNK"
  /\ thsl # wordsOf(tagged)

\* C2: roles [S, V, O] match rule 3 and come out as O, S, V; roles
\* [S, NEG, V, O] match rule 4 and come out as O, S, V, NEG.
C2_BaseRules ==
  ByRule =>
    /\ allRoles(tagged) = <<"S", "V", "O">> =>
         /\ ruleId = 3
         /\ thsl = <<tagged[3].word, tagged[1].word, tagged[2].word>>
    /\ allRoles(tagged) = <<"S", "NEG", "V", "O">> =>
         /\ ruleId = 4
         /\ thsl = <<tagged[4].word, tagged[1].word, tagged[3].word,
                     tagged[2].word>>

\* C2 witness: toThslTokens has reordered an [S, NEG, V, O] sentence.
C2_Witness ==
  /\ pc = "done" /\ via = "toThslTokens"
  /\ allRoles(tagged) = <<"S", "NEG", "V", "O">>
  /\ thsl = <<tagged[4].word, tagged[1].word, tagged[3].word, tagged[2].word>>

\* what toThslOrder is to return when S and V are present: the first time word
\* (else the first place word), every O word in order, the first S, the first
\* V, the first NEG, then the words not taken, in order
Old_expected(tg) ==
  LET first(role) == LET ix == IndicesOf(tg, role, 1)
                     IN IF ix = <<>> THEN <<>> ELSE <<Head(ix)>>
      lead == IF first("Adv(Time)") # <<>> THEN first("Adv(Time)")
              ELSE first("PP(Place)")
      slots == lead \o IndicesOf(tg, "O", 1) \o first("S") \o first("V")
               \o first("NEG")
      rest == SelectSeq([i \in 1..Len(tg) |-> i],
                        LAMBDA i : i \notin Range(slots))
      order == slots \o rest
  IN [j \in 1..Len(order) |-> tg[order[j]].word]

\* C3: roles [S, V, O, O] come out as O, O, S, V with the O words in their
\* original order; the collect-all O slot of toThslOrder takes every O word
\* at its position and every other slot takes the first unused word of its
\* role only; under a matched rule the k-th slot of a role takes the k-th word
\* of that role, so the O words of rules 5 and 6 stay adjacent and in order.
C3_CollectAll ==
  pc = "done" =>
    /\ allRoles(tagged) = <<"S", "V", "O", "O">> =>
         thsl = <<tagged[3].word, tagged[4].word, tagged[1].word,
                  tagged[2].word>>
    /\ (/\ via = "toThslOrder"
        /\ "S" \in Range(allRoles(tagged))
        /\ "V" \in Range(allRoles(tagged)))
         => thsl = Old_expected(tagged)
    /\ Matched =>
         LET order == RuleById(ruleId).thslOrder
             oWords == [j \in 1..Len(IndicesOf(tagged, "O", 1)) |->
                          tagged[IndicesOf(tagged, "O", 1)[j]].word]
         IN /\ \A j \in 1..Len(order) :
                 order[j] # "Age/Year" =>
                   thsl[j] = tagged[IndicesOf(tagged, order[j], 1)
                                      [CountIn(order, order[j], j)]].word
            /\ \E p \in 0..Len(thsl) :
                 /\ p + Len(oWords) <= Len(thsl)
                 /\ SubSeq(thsl, p + 1, p + Len(oWords)) = oWords

\* C3 witness: toThslOrder has moved the two O words of an [S, V, O, O]
\* sentence, in their order, ahead of the S and the V word.
C3_Witness ==
  /\ pc = "done" /\ via = "toThslOrder"
  /\ allRoles(tagged) = <<"S", "V", "O", "O">>
  /\ thsl = <<tagged[3].word, tagged[4].word, tagged[1].word, tagged[2].word>>

\* C4: when no rule's input pattern equals the role sequence, the output is
\* the tagged words in their original order and no rule id is reported.
C4_Fallback ==
  (ByRule /\ ~SomePatternEquals(nonUnkRoles(tagged))) =>
    /\ thsl = wordsOf(tagged)
    /\ ruleId = NoRule

\* C4 witness: the roles [PP(Place), V] went through unmatched.
C4_Witness ==
  /\ ByRule
  /\ allRoles(tagged) = <<"PP(Place)", "V">>
  /\ ruleId = NoRule
  /\ thsl = wordsOf(tagged)

\* C5: a rule is returned exactly when its thaiPattern equals the role
\* sequence with the UNK roles removed; a longer, shorter or reordered
\* sequence such as [S, V, O, O, O] matches nothing.
C5_ExactMatch ==
  ByRule =>
    /\ \A k \in 1..Len(THSL_RULES) :
         ruleId = THSL_RULES[k].id
           => THSL_RULES[k].thaiPattern = nonUnkRoles(tagged)
    /\ SomePatternEquals(nonUnkRoles(tagged)) => ruleId # NoRule
    /\ allRoles(tagged) = <<"S", "V", "O", "O", "O">> => ruleId = NoRule

\* C5 witness: [S, V, O, O, O], a supersequence of rules 3 and 5, matched
\* nothing.
C5_Witness ==
  /\ ByRule
  /\ allRoles(tagged) = <<"S", "V", "O", "O", "O">>
  /\ ruleId = NoRule

\* C6: no two rules share an input pattern, so the rule the first-match scan
\* returns is the only rule whose pattern equals the role sequence.
C6_UniqueMatch ==
  /\ \A i, j \in 1..Len(THSL_RULES) :
       i # j => THSL_RULES[i].thaiPattern # THSL_RULES[j].thaiPattern
  /\ ByRule =>
       \A k \in 1..Len(THSL_RULES) :
         THSL_RULES[k].thaiPattern = nonUnkRoles(tagged)
           => ruleId = THSL_RULES[k].id

\* C6 witness: [O, S, V] matched rule 7, not rule 3 with the same roles.
C6_Witness ==
  /\ ByRule
  /\ allRoles(tagged) = <<"O", "S", "V">>
  /\ ruleId = 7

\* the index of the token the k-th slot of an output role list takes: the
\* n-th slot of a role takes the n-th token of that role (0: none); the
\* Age/Year slot counts the Age tokens
slotIndex(tg, order, k) ==
  LET role == IF order[k] = "Age/Year" THEN "Age" ELSE order[k]
      n == CountIn(order, order[k], k)
      ix == IndicesOf(tg, role, 1)
  IN IF n <= Len(ix) THEN ix[n] ELSE 0

\* the indices the slots of an output role list take, in slot order
slotIndices(tg, order) ==
  SelectSeq([k \in 1..Len(order) |-> slotIndex(tg, order, k)],
            LAMBDA i : i > 0)

\* the indices no slot takes, ascending
restIndices(tg, order) ==
  SelectSeq([i \in 1..Len(tg) |-> i],
            LAMBDA i : i \notin Range(slotIndices(tg, order)))

wordsAt(tg, ix) == [j \in 1..Len(ix) |-> tg[ix[j]].word]

\* C23: when a rule matched, the output is the words the slots took, the k-th
\* slot of a role taking the k-th token of that role, followed by every token
\* no slot took (the UNK tokens among them) in their original order.
C23_Leftovers ==
  Matched =>
    LET order == RuleById(ruleId).thslOrder
    IN thsl = wordsAt(tagged, slotIndices(tagged, order))
                \o wordsAt(tagged, restIndices(tagged, order))

\* C23 witness: rule 26 matched a list that starts with an UNK token; the
\* UNK word and the Money word come last, in that order.
C23_Witness ==
  /\ Matched /\ ruleId = 26
  /\ Len(tagged) = 6 /\ tagged[1].role = "UNK"
  /\ thsl = <<tagged[6].word, tagged[5].word, tagged[2].word, tagged[3].word,
              tagged[1].word, tagged[4].word>>

\* the role of a word of the tagged list
roleOfWord(w) == tagged[CHOOSE i \in 1..Len(tagged) : tagged[i].word = w].role

\* the words of a list that are not tagged UNK
patternWords(ws) == SelectSeq(ws, LAMBDA w : roleOfWord(w) # "UNK")

-----------------------------------------------------------------------------
(* Properties of the two engines side by side (checked under SpecEngines) *)

\* the first index of a role in a tagged list, as a list of at most one index
firstOf(tg, role) ==
  LET ix == IndicesOf(tg, role, 1)
  IN IF ix = <<>> THEN <<>> ELSE <<ix[1]>>

\* what rule 27's output role list S, Age/Year, Number gives: the first S,
\* then one token for Age/Year (the first Age, else the first Year, else
\* none), then the first Number, then the tokens not taken, in order
AgeYear_expected(tg) ==
  LET slot == IF firstOf(tg, "Age") # <<>> THEN firstOf(tg, "Age")
              ELSE firstOf(tg, "Year")
      taken == firstOf(tg, "S") \o slot \o firstOf(tg, "Number")
      rest == SelectSeq([i \in 1..Len(tg) |-> i], LAMBDA i : i \notin Range(taken))
  IN wordsAt(tg, taken) \o wordsAt(tg, rest)

\* the results at hand for the output role list of rule 27
AgeYear_results ==
  IF applied.thslOrder = <<THSL_RULES[27].thslOrder>>
  THEN Range(applied.engine) \cup Range(applied.page)
  ELSE {}

\* C24: at the Age/Year position both reorderers emit exactly one token, the
\* first Age token if there is one, else the first Year token, and none if
\* there is neither; never two.
C24_AgeYearSlot ==
  \A r \in AgeYear_results : r.out = AgeYear_expected(applied.tagged)

\* C24 witness: a list with a Year token and no Age token; both reorderers
\* put the Year word at the Age/Year position, before the Number word.
C24_Witness ==
  /\ applied.thslOrder = <<THSL_RULES[27].thslOrder>>
  /\ allRoles(applied.tagged) = <<"S", "Number", "Year">>
  /\ applied.engine # <<>> /\ applied.page # <<>>
  /\ \A r \in AgeYear_results :
       r.out = <<applied.tagged[1].word, applied.tagged[3].word,
                 applied.tagged[2].word>>

\* neither Age nor Year: the slot emits nothing
AgeYear_Neither ==
  /\ applied.thslOrder = <<THSL_RULES[27].thslOrder>>
  /\ allRoles(applied.tagged) = <<"Number", "S">>
  /\ applied.engine # <<>>
  /\ applied.engine[1].out = <<applied.tagged[2].word, applied.tagged[1].word>>

\* both engines have returned
BothReturned == applied.engine # <<>> /\ applied.page # <<>>

NonEmptyWords == \A i \in 1..Len(applied.tagged) : applied.tagged[i].word # <<>>

\* C27: for a tagged list whose words are not empty, findExactRule and reorder
\* of thslEngine.ts return the rule and the word list that findExactRule and
\* reorderByRule of ResultPage.tsx return.
C27_EnginesAgree ==
  (BothReturned /\ NonEmptyWords) => applied.engine = applied.page

\* C27 witness: both engines matched the same rule on a list with an UNK
\* token and returned the same reordered list.
C27_Witness ==
  /\ BothReturned /\ NonEmptyWords
  /\ applied.thslOrder = <<>>
  /\ applied.engine[1].ruleId # NoRule
  /\ \E i \in 1..Len(applied.tagged) : applied.tagged[i].role = "UNK"
  /\ applied.engine[1].out # wordsOf(applied.tagged)
  /\ applied.engine = applied.page

\* with an empty word the two differ: reorderByRule filters it out
Engines_DifferOnEmptyWord ==
  /\ BothReturned /\ ~NonEmptyWords
  /\ applied.engine[1].ruleId = applied.page[1].ruleId
  /\ applied.engine[1].out # applied.page[1].out

Tagged == pc = "done" /\ via \in {"toThslTokens", "toThslOrder"}

\* C15: the tagger returns one tagged token per input token, in input order:
\* same length, the i-th word the i-th token, one role each, also for
\* repeated and blank tokens.
C15_TaggerShape ==
  Tagged =>
    /\ Len(tagged) = Len(tokens)
    /\ \A i \in 1..Len(tagged) :
         i <= Len(tokens) => tagged[i].word = tokens[i]

\* what the taggers do guarantee: one tagged token per trimmed non-blank
\* token (tagTokens: per distinct one), in input order
Tagged_CleanedShape ==
  Tagged =>
    LET cleaned == SelectSeq([i \in 1..Len(tokens) |-> Trim(tokens[i])],
                             LAMBDA t : t # <<>>)
        firsts == SelectSeq([i \in 1..Len(cleaned) |-> i],
                            LAMBDA i : \A j \in 1..(i - 1) : cleaned[j] # cleaned[i])
    IN IF via = "toThslOrder"
       THEN wordsOf(tagged) = cleaned
       ELSE wordsOf(tagged) = [k \in 1..Len(firsts) |-> cleaned[firsts[k]]]

\* C20: a token made of digits only is tagged Number, ahead of every literal
\* heuristic, dictionary role and default.
C20_NumericFirst ==
  Tagged =>
    \A i \in 1..Len(tagged) :
      isNumberToken(tagged[i].word) => tagged[i].role = "Number"

\* what tagTokens alone guarantees: its digit tokens are tagged Number
Engine_NumericFirst == via = "toThslTokens" => C20_NumericFirst

-----------------------------------------------------------------------------
(* Lexical resolution: ResultPage.tsx run (steps 1, 4, 5, 8) and the resolve *)
(* endpoint (serve)                                                          *)

\* dictionary categories
CatGeneral == <<"kham-thuapai">>
CatVerb == <<"kriya">>
CatPlace == <<"sathanthi">>
CatAmount == <<"chamnuan">>
CatNumeral == <<"tualek">>
CatFingerspelling == <<"kan-khian-sakot-niumue">>
CatPronoun == <<"sapphanam">>

\* a nullable value is <<>> (null) or <<v>>
Null == <<>>
DefaultPriority == 999
NumberBoost == -1000

\* s.replace(/<zero-width marks>/g, "").trim()
normalizeThaiToken(s) == Trim(SelectSeq(s, LAMBDA c : c \notin ZeroWidth))

\* the text of a role column after trim(): the symbol left, "" when blank
RoleText(r) == IF Len(r) = 1 THEN r[1] ELSE ""

normalizeDbRoleToRuleRole(dbRole) ==
  LET r == RoleText(Trim(dbRole)) IN
  IF r = "Q" THEN "Q(?)"
  ELSE IF r = "What" THEN "What(?)"
  ELSE IF r = "Who" THEN "Who(?)"
  ELSE IF r = "Whose" THEN "Whose(?)"
  ELSE r

\* roleMap: mapData.forEach(r => roleMap.set(normalize(r.category), ...)),
\* a later row of a category replacing an earlier one
RECURSIVE Page_roleMapLoop(_, _)
Page_roleMapLoop(mapData, m) ==
  IF mapData = <<>> THEN m
  ELSE LET r == Head(mapData)
           key == normalizeThaiToken(r.category)
           val == [role |-> normalizeDbRoleToRuleRole(r.role),
                   priority |-> IF r.priority = Null THEN DefaultPriority
                                ELSE r.priority[1]]
       IN Page_roleMapLoop(Tail(mapData),
            [k \in DOMAIN m \cup {key} |-> IF k = key THEN val ELSE m[k]])

Page_roleMap(mapData) == Page_roleMapLoop(mapData, <<>>)

\* mutant: a category the table does not list gets the role UNK
getRole_defaultUnk(rm, category) ==
  LET key == normalizeThaiToken(category)
  IN IF key \in DOMAIN rm THEN rm[key]
     ELSE [role |-> "UNK", priority |-> DefaultPriority]

getRole(rm, category) ==
  LET key == normalizeThaiToken(category)
  IN IF key \in DOMAIN rm THEN rm[key]
     ELSE [role |-> "O", priority |-> DefaultPriority]

\* Array.prototype.sort with the comparator key(a) - key(b): a stable sort.
\* InsertByKey puts index i behind every index whose key is not larger.
RECURSIVE InsertByKey(_, _, _)
InsertByKey(i, sorted, keys) ==
  IF sorted = <<>> THEN <<i>>
  ELSE IF keys[Head(sorted)] - keys[i] <= 0
       THEN <<Head(sorted)>> \o InsertByKey(i, Tail(sorted), keys)
       ELSE <<i>> \o sorted

RECURSIVE SortLoop(_, _, _)
SortLoop(keys, i, sorted) ==
  IF i > Len(keys) THEN sorted
  ELSE SortLoop(keys, i + 1, InsertByKey(i, sorted, keys))

\* the indices 1..Len(keys) in ascending key order, equal keys in index order
StableSortIndices(keys) == SortLoop(keys, 1, <<>>)

\* mutant: the comparator is reversed, so the largest key comes first
Page_pickBestRow_descending(rm, token, rows) ==
  LET keys == [i \in 1..Len(rows) |-> 0 - getRole(rm, rows[i].category).priority]
  IN rows[Head(StableSortIndices(keys))]

\* pickBestRow of run: the first row after sorting by priority + boost
Page_pickBestRow(rm, token, rows) ==
  LET t == normalizeThaiToken(token)
      boost(row) == IF isNumberToken(t)
                       /\ (row.category = CatNumeral \/ row.category = CatAmount)
                    THEN NumberBoost ELSE 0
      keys == [i \in 1..Len(rows) |->
                 getRole(rm, rows[i].category).priority + boost(rows[i])]
  IN rows[Head(StableSortIndices(keys))]

\* grouped.get(t) ?? []: the rows whose normalized word is t, in data order
Page_rowsOf(rows, t) ==
  SelectSeq(rows, LAMBDA r : normalizeThaiToken(r.word) = t)

\* mutant: the loop stops at the first token with no row
RECURSIVE Page_tagLoop_stopAtMiss(_, _, _, _)
Page_tagLoop_stopAtMiss(rm, rows, toks, acc) ==
  IF toks = <<>> THEN acc
  ELSE LET t == Head(toks)
           cand == Page_rowsOf(rows, t)
       IN IF Len(cand) = 0 THEN acc
          ELSE LET best == IF Len(cand) = 1 THEN cand[1]
                           ELSE Page_pickBestRow(rm, t, cand)
               IN Page_tagLoop_stopAtMiss(rm, rows, Tail(toks),
                    [tagged |-> Append(acc.tagged,
                                  [word |-> t,
                                   role |-> getRole(rm, best.category).role]),
                     picked |-> Append(acc.picked, best)])

\* step 5: the tagged list and the picked rows, in Thai order; a token with
\* no row is skipped
RECURSIVE Page_tagLoop(_, _, _, _)
Page_tagLoop(rm, rows, toks, acc) ==
  IF toks = <<>> THEN acc
  ELSE LET t == Head(toks)
           cand == Page_rowsOf(rows, t)
       IN IF Len(cand) = 0 THEN Page_tagLoop(rm, rows, Tail(toks), acc)
          ELSE LET best == IF Len(cand) = 1 THEN cand[1]
                           ELSE Page_pickBestRow(rm, t, cand)
               IN Page_tagLoop(rm, rows, Tail(toks),
                    [tagged |-> Append(acc.tagged,
                                  [word |-> t,
                                   role |-> getRole(rm, best.category).role]),
                     picked |-> Append(acc.picked, best)])

\* rowsByToken.get(normalizeThaiToken(t)) ?? null: the last picked row of t
Page_rowByToken(picked, t) ==
  LET hits == {i \in 1..Len(picked) : normalizeThaiToken(picked[i].word)
                                        = normalizeThaiToken(t)}
  IN IF hits = {} THEN Null
     ELSE <<picked[CHOOSE i \in hits : \A j \in hits : j <= i]>>

buildPoseUrl(filename) == <<"api/pose?name=", filename>>

\* step 8: orderedTokens mapped to their picked rows, nulls filtered out
Page_processed(picked, orderedTokens) ==
  LET rowsOrNull == [i \in 1..Len(orderedTokens) |->
                       Page_rowByToken(picked, orderedTokens[i])]
      nonNull == SelectSeq(rowsOrNull, LAMBDA r : r # Null)
      orderedPickedRows == [i \in 1..Len(nonNull) |-> nonNull[i][1]]
  IN [i \in 1..Len(orderedPickedRows) |->
        [word |-> normalizeThaiToken(orderedPickedRows[i].word),
         category |-> orderedPickedRows[i].category,
         pose_filename |-> orderedPickedRows[i].pose_filename,
         fullUrl |-> buildPoseUrl(orderedPickedRows[i].pose_filename)]]

\* steps 1 and 5 to 8 of run on the rows the lookup returned
Page_resolve(mapData, rows, tokensThai) ==
  LET rm == Page_roleMap(mapData)
      t == Page_tagLoop(rm, rows, tokensThai, [tagged |-> <<>>, picked |-> <<>>])
      m == Page_matchAndOrder(t.tagged)
  IN [tagged |-> t.tagged, ruleId |-> m.ruleId,
      orderedTokens |-> m.orderedTokens,
      processed |-> Page_processed(t.picked, m.orderedTokens)]

-----------------------------------------------------------------------------
(* The resolve endpoint: serve *)

CATEGORY_PRIORITY ==
  [c \in {CatGeneral, CatVerb, CatPlace, CatAmount, CatNumeral,
          CatFingerspelling} |->
     CASE c = CatGeneral -> 1
       [] c = CatVerb -> 2
       [] c = CatPlace -> 3
       [] c = CatAmount -> 4
       [] c = CatNumeral -> 5
       [] c = CatFingerspelling -> 6]

\* CATEGORY_PRIORITY[category] ?? 999
Serve_priority(category) ==
  IF category \in DOMAIN CATEGORY_PRIORITY THEN CATEGORY_PRIORITY[category]
  ELSE DefaultPriority

\* pickBestRow of the endpoint (and of the earlier ResultPage)
Serve_pickBestRow(token, rows) ==
  LET boost(row) == IF isNumberToken(token) /\ row.category = CatNumeral
                    THEN NumberBoost ELSE 0
      keys == [i \in 1..Len(rows) |->
                 Serve_priority(rows[i].category) + boost(rows[i])]
  IN rows[Head(StableSortIndices(keys))]

\* grouped[token] ?? []: the rows whose word is the token, in data order
Serve_rowsOf(rows, token) == SelectSeq(rows, LAMBDA r : r.word = token)

\* the loop over the requested tokens: found and missing
RECURSIVE Serve_loop(_, _, _)
Serve_loop(rows, toks, acc) ==
  IF toks = <<>> THEN acc
  ELSE LET token == Head(toks)
           candidates == Serve_rowsOf(rows, token)
       IN Serve_loop(rows, Tail(toks),
            IF Len(candidates) = 0
            THEN [acc EXCEPT !.missing = Append(@, token)]
            ELSE IF Len(candidates) = 1
            THEN [acc EXCEPT !.found = Append(@, candidates[1])]
            ELSE [acc EXCEPT !.found =
                    Append(@, Serve_pickBestRow(token, candidates))])

Serve_response(rows, toks) ==
  Serve_loop(rows, toks, [found |-> <<>>, missing |-> <<>>])

-----------------------------------------------------------------------------
(* Inputs of the lexical resolution *)

Row(word, category) ==
  [word |-> word, category |-> category,
   pose_filename |-> word \o <<category[1], ".pose">>]

\* the dictionary: "5" and "kin" are homonyms across two categories
RowInputs ==
  { Row(<<"5">>, CatNumeral), Row(<<"5">>, CatGeneral),
    Row(<<"kin">>, CatVerb), Row(<<"kin">>, CatGeneral),
    Row(<<"chan">>, CatPronoun), Row(<<"khaaw">>, CatGeneral) }

ResolveWords == {<<"5">>, <<"kin">>, <<"chan">>, <<"khaaw">>}

IsInjective(s) == \A i, j \in 1..Len(s) : s[i] = s[j] => i = j

DistinctSeqs(S, n) == {s \in SeqsUpTo(S, n) : IsInjective(s)}

TableRow(category, role, priority) ==
  [category |-> category, role |-> <<role>>, priority |-> priority]

\* what one category's row may hold as priority: small, large or null
PriorityInputs == {<<1>>, <<1500>>, Null}

\* snapshots of sl_category_role: the rows of the categories listed, in table
\* order; the pronoun category is always listed
TableInputs ==
  { SelectSeq(<<TableRow(CatGeneral, "O", g), TableRow(CatVerb, "V", <<1>>),
                TableRow(CatNumeral, "Number", n),
                TableRow(CatPronoun, "S", <<1>>)>>,
              LAMBDA r : r.category \in listed \cup {CatPronoun}) :
      g \in PriorityInputs, n \in {<<1>>, <<1500>>},
      listed \in SUBSET {CatGeneral, CatVerb, CatNumeral} }

RowsFor(toks) == {r \in RowInputs : r.word \in Range(toks)}

InitResolve ==
  /\ Idle
  /\ PageIdle
  /\ tagged = <<>>
  /\ \/ /\ pc = "lookup"
        /\ tokens \in DistinctSeqs(ResolveWords, MaxReq) \ {<<>>}
        /\ roleMap \in TableInputs
     \/ /\ pc = "request"
        /\ tokens \in SeqsUpTo(ResolveWords, MaxReq)
        /\ roleMap = <<>>
  /\ data \in DistinctSeqs(RowsFor(tokens), MaxRows)

\* run, from the answer of the SL_word lookup to setFoundWords(processed)
RunResolve ==
  /\ pc = "lookup"
  /\ LET r == Page_resolve(roleMap, data, tokens)
     IN /\ tagged' = r.tagged
        /\ ruleId' = r.ruleId
        /\ thsl' = r.orderedTokens
        /\ processed' = r.processed
  /\ via' = "run"
  /\ pc' = "done"
  /\ UNCHANGED <<tokens, roleMap, data, found, missing>>
  /\ UNCHANGED pageVars
  /\ UNCHANGED sideVars

\* run when the SL_word lookup fails: setFoundWords([]) and return
RunLookupError ==
  /\ pc = "lookup"
  /\ processed' = <<>>
  /\ via' = "runError"
  /\ pc' = "done"
  /\ UNCHANGED <<tokens, tagged, ruleId, thsl, roleMap, data, found, missing>>
  /\ UNCHANGED pageVars
  /\ UNCHANGED sideVars

\* serve: the response {found, missing}
Serve ==
  /\ pc = "request"
  /\ LET r == Serve_response(data, tokens)
     IN /\ found' = r.found
        /\ missing' = r.missing
  /\ via' = "serve"
  /\ pc' = "done"
  /\ UNCHANGED <<tokens, tagged, ruleId, thsl, roleMap, data, processed>>
  /\ UNCHANGED pageVars
  /\ UNCHANGED sideVars

\* serve when the SL_word lookup fails: status 500, no body lists
ServeError ==
  /\ pc = "request"
  /\ via' = "serveError"
  /\ pc' = "done"
  /\ UNCHANGED <<tokens, tagged, ruleId, thsl, roleMap, data, processed,
                 found, missing>>
  /\ UNCHANGED pageVars
  /\ UNCHANGED sideVars

NextResolve == RunResolve \/ RunLookupError \/ Serve \/ ServeError

SpecResolve == InitResolve /\ [][NextResolve]_vars

-----------------------------------------------------------------------------
(* Properties of the lexical resolution (checked under SpecResolve) *)

Resolved == pc = "done" /\ via \in {"run", "serve"}

\* the resolved entries of the finished request, whichever entry point ran
resolvedEntries == IF via = "run" THEN processed ELSE found

entriesOf(t) == SelectSeq(resolvedEntries, LAMBDA e : e.word = t)

candidatesOf(t) == SelectSeq(data, LAMBDA r : r.word = t)

Occurrences(t) == Cardinality({i \in 1..Len(tokens) : tokens[i] = t})

\* the priority the table snapshot gives a category: that of its row, 999
\* when the row holds none or the category is not listed
tablePriority(category) ==
  IF \E i \in 1..Len(roleMap) : roleMap[i].category = category
  THEN LET r == roleMap[CHOOSE i \in 1..Len(roleMap) :
                          roleMap[i].category = category]
       IN IF r.priority = <<>> THEN 999 ELSE r.priority[1]
  ELSE 999

\* C7: a pure-digit token with candidates in the numeral category and in
\* another category resolves to the numeral candidate, whatever the
\* priorities of the two categories and the order of the candidates.
C7_NumeralOverride ==
  Resolved =>
    \A t \in Range(tokens) :
      (/\ isNumberToken(t)
       /\ \E i \in 1..Len(data) : data[i].word = t /\ data[i].category = CatNumeral
       /\ \E i \in 1..Len(data) : data[i].word = t /\ data[i].category # CatNumeral)
        => \A i \in 1..Len(entriesOf(t)) : entriesOf(t)[i].category = CatNumeral

\* C8: a non-digit token with candidates resolves in run to exactly one of
\* them: the first, in candidate order, among those whose category has the
\* smallest table priority (999 for a category the table does not list).
C8_PriorityResolution ==
  (pc = "done" /\ via = "run") =>
    \A t \in Range(tokens) :
      (~isNumberToken(t) /\ candidatesOf(t) # <<>>) =>
        LET cand == candidatesOf(t)
            best == CHOOSE i \in 1..Len(cand) :
                      /\ \A j \in 1..Len(cand) :
                           tablePriority(cand[i].category)
                             <= tablePriority(cand[j].category)
                      /\ \A j \in 1..(i - 1) :
                           tablePriority(cand[j].category)
                             > tablePriority(cand[i].category)
        IN /\ Len(entriesOf(t)) = 1
           /\ entriesOf(t)[1].category = cand[best].category
           /\ entriesOf(t)[1].pose_filename = cand[best].pose_filename

\* C8 witness: "kin" had two candidates; the second one, of the smaller
\* priority, was picked.
C8_Witness ==
  /\ pc = "done" /\ via = "run"
  /\ Len(candidatesOf(<<"kin">>)) = 2
  /\ tablePriority(candidatesOf(<<"kin">>)[2].category)
       < tablePriority(candidatesOf(<<"kin">>)[1].category)
  /\ Len(entriesOf(<<"kin">>)) = 1
  /\ entriesOf(<<"kin">>)[1].category = candidatesOf(<<"kin">>)[2].category

\* C9: a token with no dictionary row leaves no entry and does not stop the
\* request; every token with a row leaves exactly one entry per occurrence,
\* carrying the token as its word and the category and pose of one of its rows.
C9_LookupMiss ==
  Resolved =>
    /\ \A t \in Range(tokens) :
         Len(entriesOf(t)) = IF candidatesOf(t) = <<>> THEN 0 ELSE Occurrences(t)
    /\ \A i \in 1..Len(resolvedEntries) :
         /\ resolvedEntries[i].word \in Range(tokens)
         /\ \E j \in 1..Len(data) :
              /\ data[j].word = resolvedEntries[i].word
              /\ data[j].category = resolvedEntries[i].category
              /\ data[j].pose_filename = resolvedEntries[i].pose_filename

\* C9 witness: run resolved a token that follows a token with no row.
C9_Witness ==
  /\ pc = "done" /\ via = "run"
  /\ Len(tokens) >= 2
  /\ candidatesOf(tokens[1]) = <<>>
  /\ candidatesOf(tokens[2]) # <<>>
  /\ Len(entriesOf(tokens[2])) = 1

\* C10: the finished request reports the resolved entries and the tokens
\* with no dictionary row; every requested token is in exactly one of the
\* two lists, so their lengths add up to the number of tokens.
C10_NotFoundReported ==
  Resolved =>
    /\ Len(resolvedEntries) + Len(missing) = Len(tokens)
    /\ missing = SelectSeq(tokens, LAMBDA t : candidatesOf(t) = <<>>)

\* what serve alone guarantees: found and missing partition the tokens
Serve_Partition ==
  (pc = "done" /\ via = "serve") =>
    /\ Len(found) + Len(missing) = Len(tokens)
    /\ missing = SelectSeq(tokens, LAMBDA t : candidatesOf(t) = <<>>)
    /\ [i \in 1..Len(found) |-> found[i].word]
         = SelectSeq(tokens, LAMBDA t : candidatesOf(t) # <<>>)

\* what serve alone guarantees for digits: its fixed priorities lie within
\* the boost, so the numeral candidate of a digit token always wins
Serve_NumeralOverride == via = "serve" => C7_NumeralOverride

\* the orders in which the dictionary may return the same rows
RowOrders(rows) ==
  {d \in [1..Len(rows) -> Range(rows)] : IsInjective(d)}

\* C14: a second run of steps 5 to 8 on the same tokens and the same table
\* snapshot yields the same ordered output as the first, in whatever order
\* the dictionary returns the same rows.
C14_Idempotent ==
  (pc = "done" /\ via = "run") =>
    \A d2 \in RowOrders(data) :
      LET again == Page_resolve(roleMap, d2, tokens)
      IN /\ again.orderedTokens = thsl
         /\ again.processed = processed

-----------------------------------------------------------------------------
(* pages/ResultPage.tsx: text utilities, enrichment and assembly             *)

\* UTF-16 code units of one symbol of a text: the Thai words by their
\* spelling, every other symbol (blank, zero-width mark, digit) one unit
CodeUnits(c) ==
  CASE c = "chan" -> 3
    [] c = "kin" -> 3
    [] c = "khaaw" -> 4
    [] c = "thorasap" -> 8
    [] c = "ban" -> 4
    [] c = "mai-mi" -> 5
    [] c = "khokhwam" -> 7
    [] OTHER -> 1

\* s.length
RECURSIVE Length(_)
Length(s) == IF s = <<>> THEN 0 ELSE CodeUnits(Head(s)) + Length(Tail(s))

\* text.indexOf(token): the offset of the first occurrence, -1 when absent
IndexOf(text, token) ==
  LET hits == {p \in 0..(Len(text) - Len(token)) :
                 SubSeq(text, p + 1, p + Len(token)) = token}
  IN IF hits = {} THEN -1
     ELSE Length(SubSeq(text, 1, CHOOSE p \in hits : \A q \in hits : p <= q))

\* k.includes(t)
StrIncludes(k, t) == IndexOf(k, t) >= 0

\* s.replace(/<zero-width marks>/g, ""), untrimmed
normalizeThaiText(s) == SelectSeq(s, LAMBDA c : c \notin ZeroWidth)

\* tokens.map(normalizeThaiToken).filter(Boolean)
cleanTokens(toks) ==
  SelectSeq([i \in 1..Len(toks) |-> normalizeThaiToken(toks[i])], Truthy)

\* mutant: a repeated word replaces its earlier occurrence
RECURSIVE Page_uniqLoop_keepLast(_, _, _)
Page_uniqLoop_keepLast(toks, seen, out) ==
  IF toks = <<>> THEN out
  ELSE LET x == normalizeThaiToken(Head(toks)) IN
       IF ~Truthy(x) THEN Page_uniqLoop_keepLast(Tail(toks), seen, out)
       ELSE Page_uniqLoop_keepLast(Tail(toks), seen \cup {x},
              Append(SelectSeq(out, LAMBDA y : y # x), x))

\* uniqPreserveOrder of ResultPage: normalize, drop blanks, drop repeats
RECURSIVE Page_uniqLoop(_, _, _)
Page_uniqLoop(toks, seen, out) ==
  IF toks = <<>> THEN out
  ELSE LET x == normalizeThaiToken(Head(toks)) IN
       IF ~Truthy(x) THEN Page_uniqLoop(Tail(toks), seen, out)
       ELSE IF x \in seen THEN Page_uniqLoop(Tail(toks), seen, out)
       ELSE Page_uniqLoop(Tail(toks), seen \cup {x}, Append(out, x))

Page_uniqPreserveOrder(toks) == Page_uniqLoop(toks, {}, <<>>)

\* idx >= 0 ? idx : 1e15.  FarIndex stands for 1e15: an offset beyond the end
\* of every text (the model's integers are 32 bits wide)
FarIndex == 1000000000

\* the {token, i, idx} entries orderTokensByOriginalText sorts
Order_entries(text, toks) ==
  [i \in 1..Len(toks) |->
     LET token == normalizeThaiToken(toks[i])
         idx == IndexOf(text, token)
     IN [token |-> token, i |-> i, idx |-> IF idx >= 0 THEN idx ELSE FarIndex]]

\* mutant: the offsets are ignored, the input order stays
Order_compare_inputOrder(a, b) == a.i - b.i

\* (a, b) => (a.idx !== b.idx ? a.idx - b.idx : a.i - b.i)
Order_compare(a, b) == IF a.idx # b.idx THEN a.idx - b.idx ELSE a.i - b.i

\* Array.prototype.sort with Order_compare: e goes behind every entry that
\* does not compare larger
RECURSIVE Order_insert(_, _)
Order_insert(e, sorted) ==
  IF sorted = <<>> THEN <<e>>
  ELSE IF Order_compare(Head(sorted), e) <= 0
       THEN <<Head(sorted)>> \o Order_insert(e, Tail(sorted))
       ELSE <<e>> \o sorted

RECURSIVE Order_sort(_, _)
Order_sort(entries, sorted) ==
  IF entries = <<>> THEN sorted
  ELSE Order_sort(Tail(entries), Order_insert(Head(entries), sorted))

orderTokensByOriginalText(originalText, toks) ==
  LET text == normalizeThaiText(originalText)
      sorted == Order_sort(Order_entries(text, toks), <<>>)
  IN SelectSeq([j \in 1..Len(sorted) |-> sorted[j].token], Truthy)

\* s.split(/\s+/) of a trimmed, non-empty s: the maximal blank-free chunks
RECURSIVE SplitWs(_, _, _)
SplitWs(s, cur, out) ==
  IF s = <<>> THEN (IF cur = <<>> THEN out ELSE Append(out, cur))
  ELSE IF Head(s) \in WhiteSpace
       THEN SplitWs(Tail(s), <<>>, IF cur = <<>> THEN out ELSE Append(out, cur))
       ELSE SplitWs(Tail(s), Append(cur, Head(s)), out)

\* every way Intl.Segmenter may cut one blank-free chunk into words
RECURSIVE Cuts(_)
Cuts(w) ==
  {<<w>>} \cup
  UNION {{<<SubSeq(w, 1, k)>> \o rest : rest \in Cuts(SubSeq(w, k + 1, Len(w)))} :
           k \in 1..(Len(w) - 1)}

\* the segment lists of a list of chunks, each chunk cut in one of its ways
RECURSIVE CutAll(_)
CutAll(chunks) ==
  IF chunks = <<>> THEN {<<>>}
  ELSE {c \o rest : c \in Cuts(Head(chunks)), rest \in CutAll(Tail(chunks))}

\* segmentThaiWords without Intl.Segmenter: whitespace splitting
segmentThaiWords_fallback(text) ==
  LET s == Trim(normalizeThaiText(text))
  IN IF ~Truthy(s) THEN <<>>
     ELSE SelectSeq([i \in 1..Len(SplitWs(s, <<>>, <<>>)) |->
                       normalizeThaiToken(SplitWs(s, <<>>, <<>>)[i])], Truthy)

\* what segmentThaiWords may return: the word-like segments of some
\* segmentation (the blanks between chunks are not word-like); the
\* whitespace split is one of them
segmentThaiWords(text) ==
  LET s == Trim(normalizeThaiText(text))
  IN IF ~Truthy(s) THEN {<<>>}
     ELSE {SelectSeq([i \in 1..Len(segs) |-> normalizeThaiToken(segs[i])], Truthy) :
             segs \in CutAll(SplitWs(s, <<>>, <<>>))}

\* longest prefix of the text tokens looked up: textTokens.slice(0, 200)
CandidateLimit == 200

Slice(s, n) == SubSeq(s, 1, IF Len(s) < n THEN Len(s) ELSE n)

\* mutant: the default role O is missing from the list
IMPORTANT_ROLES_withoutO ==
  {"S", "V", "NEG", "PP(Place)", "Adv(Time)", "When/Why/Where/How(?)",
   "What(?)", "Who(?)", "Whose(?)", "Q(?)", "Pronoun", "V2B", "ClausalVerb",
   "Adj", "Adj1", "Adj2", "NP", "PAdj", "ComparativeAdj", "Money", "Number",
   "Currency", "Age", "Year", "Break"}

IMPORTANT_ROLES ==
  {"S", "V", "O", "NEG", "PP(Place)", "Adv(Time)", "When/Why/Where/How(?)",
   "What(?)", "Who(?)", "Whose(?)", "Q(?)", "Pronoun", "V2B", "ClausalVerb",
   "Adj", "Adj1", "Adj2", "NP", "PAdj", "ComparativeAdj", "Money", "Number",
   "Currency", "Age", "Year", "Break"}

\* supabase .in("word", words): the rows of the dictionary whose word is one
\* of the words asked for, in the order the store returns them
Lookup(dict, words) ==
  SelectSeq(dict, LAMBDA r : \E i \in 1..Len(words) : words[i] = r.word)

\* the candidate of the best table priority: rows.slice().sort(...)[0]
Page_bestByPriority(rm, cand) ==
  cand[Head(StableSortIndices(
         [i \in 1..Len(cand) |-> getRole(rm, cand[i].category).priority]))]

\* best of the loop over candidateTextTokens: for every candidate token with
\* rows, in order, the category of the row the enrichment pass picks
RECURSIVE Page_extraBest(_, _, _)
Page_extraBest(rm, rows, cands) ==
  IF cands = <<>> THEN <<>>
  ELSE LET normTok == normalizeThaiToken(Head(cands))
           candidates == SelectSeq(rows,
                           LAMBDA r : normalizeThaiToken(r.word) = normTok)
       IN (IF Truthy(normTok) /\ Len(candidates) > 0
           THEN <<[word |-> normTok,
                   category |-> Page_bestByPriority(rm, candidates).category]>>
           ELSE <<>>) \o Page_extraBest(rm, rows, Tail(cands))

\* mutant: every candidate with a dictionary row is retained, whatever its role
RECURSIVE Page_extraLoop_noRoleTest(_, _, _, _, _)
Page_extraLoop_noRoleTest(rm, rows, cands, seen, out) ==
  IF cands = <<>> THEN out
  ELSE LET normTok == normalizeThaiToken(Head(cands))
           candidates == SelectSeq(rows,
                           LAMBDA r : normalizeThaiToken(r.word) = normTok)
       IN IF ~Truthy(normTok) \/ normTok \in seen \/ Len(candidates) = 0
          THEN Page_extraLoop_noRoleTest(rm, rows, Tail(cands), seen, out)
          ELSE Page_extraLoop_noRoleTest(rm, rows, Tail(cands),
                                         seen \cup {normTok}, Append(out, normTok))

\* the loop over candidateTextTokens that fills extraFromText
RECURSIVE Page_extraLoop(_, _, _, _, _)
Page_extraLoop(rm, rows, cands, seen, out) ==
  IF cands = <<>> THEN out
  ELSE LET normTok == normalizeThaiToken(Head(cands))
           candidates == SelectSeq(rows,
                           LAMBDA r : normalizeThaiToken(r.word) = normTok)
       IN IF ~Truthy(normTok) \/ normTok \in seen
          THEN Page_extraLoop(rm, rows, Tail(cands), seen, out)
          ELSE IF Len(candidates) = 0
          THEN Page_extraLoop(rm, rows, Tail(cands), seen, out)
          ELSE IF getRole(rm, Page_bestByPriority(rm, candidates).category).role
                    \in IMPORTANT_ROLES
          THEN Page_extraLoop(rm, rows, Tail(cands), seen \cup {normTok},
                              Append(out, normTok))
          ELSE Page_extraLoop(rm, rows, Tail(cands), seen, out)

\* mutant: every token is kept, also a part of a longer token
Page_keptLoop_keepAll(sorted, kept) == sorted

\* dropSubTokens: the kept list, longest token first
RECURSIVE Page_keptLoop(_, _)
Page_keptLoop(sorted, kept) ==
  IF sorted = <<>> THEN kept
  ELSE LET t == Head(sorted)
           isSub == \E j \in 1..Len(kept) : StrIncludes(kept[j], t) /\ kept[j] # t
       IN Page_keptLoop(Tail(sorted), IF ~isSub THEN Append(kept, t) ELSE kept)

dropSubTokens(toks) ==
  LET tks == Page_uniqPreserveOrder(
               SelectSeq([i \in 1..Len(toks) |-> normalizeThaiToken(toks[i])],
                         Truthy))
      order == StableSortIndices([i \in 1..Len(tks) |-> 0 - Length(tks[i])])
      sorted == [j \in 1..Len(order) |-> tks[order[j]]]
      kept == Page_keptLoop(sorted, <<>>)
      keptSet == {kept[j] : j \in 1..Len(kept)}
  IN SelectSeq(tks, LAMBDA t : t \in keptSet)

-----------------------------------------------------------------------------
(* pages/ResultPage.tsx: the effect and run() as a state machine.  A run is  *)
(* cut at its awaits; the rows of the last table and of SL_word are the      *)
(* variables roleMap and data.                                               *)

\* most keywords of one request
MaxKw == 2
\* most runs the effect starts
MaxRuns == 2

\* state?.originalText || "mai-mi khokhwam" (the "no text" placeholder)
Placeholder == <<"mai-mi", "khokhwam">>

resultText(p) == IF Truthy(p.text) THEN p.text ELSE Placeholder

\* setNewBlobUrl(url): revoke the previous object URL, remember the new one
setNewBlobUrl(u, url) ==
  [u EXCEPT !.revoked = IF u.prevBlobUrl # Null
                        THEN @ \cup {u.prevBlobUrl[1]} ELSE @,
            !.prevBlobUrl = url,
            !.sentenceVideoUrl = url]

\* run() up to its first await: the empty-keyword return, or the loading
\* flags and the request for sl_category_role
Run_begin(p, u, id) ==
  LET kwTokens == cleanTokens(p.keywords)
      locals == [pc |-> "done", text |-> resultText(p), keywords |-> p.keywords,
                 kwTokens |-> kwTokens, mapData |-> <<>>,
                 candidateTextTokens |-> <<>>, extraFromText |-> <<>>,
                 mergedTokens |-> <<>>, mergedNoSub |-> <<>>,
                 tokensThai |-> <<>>, tagged |-> <<>>, ruleId |-> NoRule,
                 orderedTokens |-> <<>>, processed |-> <<>>, fetched |-> {},
                 outcome |-> "empty", enriched |-> "none", textBest |-> <<>>]
  IN IF Len(kwTokens) = 0
     THEN [run |-> locals,
           ui |-> [setNewBlobUrl([u EXCEPT !.foundWords = <<>>,
                                           !.currentSinglePose = Null], Null)
                     EXCEPT !.writer = id]]
     ELSE [run |-> [locals EXCEPT !.pc = "table", !.fetched = {"table"},
                                  !.outcome = "running"],
           ui |-> [setNewBlobUrl([u EXCEPT !.loadingKeywords = TRUE,
                                           !.loadingSentenceVideo = TRUE], Null)
                     EXCEPT !.writer = id]]

\* steps 3, 3.1 and 3.2, and the request for the SL_word rows of tokensThai
Run_assemble(run, extraFromText) ==
  LET mergedTokens == Page_uniqPreserveOrder(run.kwTokens \o extraFromText)
      mergedNoSub == dropSubTokens(mergedTokens)
      tokensThai == orderTokensByOriginalText(run.text, mergedNoSub)
  IN [run EXCEPT !.extraFromText = extraFromText,
                 !.mergedTokens = mergedTokens,
                 !.mergedNoSub = mergedNoSub,
                 !.tokensThai = tokensThai,
                 !.pc = "lookup",
                 !.fetched = @ \cup {"lookup"}]

\* after the answer for sl_category_role: the text is segmented and, when it
\* holds a word, the SL_word rows of the text tokens are requested
Run_afterTable(run, mapData, segs) ==
  LET textTokens == Page_uniqPreserveOrder(segs)
      candidateTextTokens == Slice(textTokens, CandidateLimit)
      r1 == [run EXCEPT !.mapData = mapData,
                        !.candidateTextTokens = candidateTextTokens]
  IN IF Len(candidateTextTokens) > 0
     THEN [r1 EXCEPT !.pc = "enrich", !.fetched = @ \cup {"enrich"}]
     ELSE Run_assemble(r1, <<>>)

\* the filenames handed to api/concat_video
Run_filenames(entries) ==
  SelectSeq([i \in 1..Len(entries) |-> Trim(entries[i].pose_filename)],
            Truthy)

\* the effect runs for the first time
Mount ==
  /\ pc = "page"
  /\ runs = <<>>
  /\ LET s == Run_begin(props, ui, 1)
     IN /\ runs' = <<s.run>>
        /\ ui' = s.ui
  /\ UNCHANGED sideVars
  /\ UNCHANGED <<pc, via, tokens, tagged, ruleId, thsl, roleMap, data,
                 processed, found, missing, props>>

\* the props the page is navigated to while a request is on its way
StaleProps ==
  { [text |-> <<"chan", "kin", "khaaw">>, keywords |-> <<<<"kin">>, <<"khaaw">>>>],
    [text |-> <<"chan", "kin", "khaaw">>, keywords |-> <<<<"chan">>>>],
    [text |-> <<"5", SP, "ban">>, keywords |-> <<<<"ban">>>>],
    [text |-> <<"5", SP, "ban">>, keywords |-> <<>>] }

\* new text or keywords arrive: the effect's dependencies differ, its cleanup
\* revokes the current object URL and run() starts again
PropsChange ==
  /\ pc = "page"
  /\ Len(runs) >= 1
  /\ Len(runs) < MaxRuns
  /\ \E p \in StaleProps :
       /\ p.keywords # props.keywords \/ resultText(p) # resultText(props)
       /\ props' = p
       /\ LET cleaned == [ui EXCEPT !.revoked = IF ui.prevBlobUrl # Null
                                               THEN @ \cup {ui.prevBlobUrl[1]}
                                               ELSE @]
              s == Run_begin(p, cleaned, Len(runs) + 1)
          IN /\ runs' = Append(runs, s.run)
             /\ ui' = s.ui
  /\ UNCHANGED sideVars
  /\ UNCHANGED <<pc, via, tokens, tagged, ruleId, thsl, roleMap, data,
                 processed, found, missing>>

\* sl_category_role answers with its rows
TableLoaded ==
  /\ pc = "page"
  /\ \E r \in DOMAIN runs :
       /\ runs[r].pc = "table"
       /\ \E segs \in segmentThaiWords(runs[r].text) :
            runs' = [runs EXCEPT ![r] = Run_afterTable(@, roleMap, segs)]
  /\ UNCHANGED sideVars
  /\ UNCHANGED <<pc, via, tokens, tagged, ruleId, thsl, roleMap, data,
                 processed, found, missing, props, ui>>

\* sl_category_role answers with an error: mapData is null, roleMap stays empty
TableError ==
  /\ pc = "page"
  /\ \E r \in DOMAIN runs :
       /\ runs[r].pc = "table"
       /\ \E segs \in segmentThaiWords(runs[r].text) :
            runs' = [runs EXCEPT ![r] = Run_afterTable(@, <<>>, segs)]
  /\ UNCHANGED sideVars
  /\ UNCHANGED <<pc, via, tokens, tagged, ruleId, thsl, roleMap, data,
                 processed, found, missing, props, ui>>

\* SL_word answers for the text tokens: extraFromText is collected
Enriched ==
  /\ pc = "page"
  /\ \E r \in DOMAIN runs :
       /\ runs[r].pc = "enrich"
       /\ runs' = [runs EXCEPT ![r] =
            LET rm == Page_roleMap(runs[r].mapData)
                cands == runs[r].candidateTextTokens
                rows == Lookup(data, cands)
            IN Run_assemble(
                 [runs[r] EXCEPT !.enriched = "ok",
                                 !.textBest = Page_extraBest(rm, rows, cands)],
                 Page_extraLoop(rm, rows, cands, {}, <<>>))]
  /\ UNCHANGED sideVars
  /\ UNCHANGED <<pc, via, tokens, tagged, ruleId, thsl, roleMap, data,
                 processed, found, missing, props, ui>>

\* SL_word answers with an error for the text tokens: a warning, no extras
EnrichError ==
  /\ pc = "page"
  /\ \E r \in DOMAIN runs :
       /\ runs[r].pc = "enrich"
       /\ runs' = [runs EXCEPT ![r] =
            Run_assemble([@ EXCEPT !.enriched = "error"], <<>>)]
  /\ UNCHANGED sideVars
  /\ UNCHANGED <<pc, via, tokens, tagged, ruleId, thsl, roleMap, data,
                 processed, found, missing, props, ui>>

\* SL_word answers for tokensThai: steps 5 to 8, setFoundWords, and the
\* request for the sentence video (none when no pose file is left)
Resolve ==
  /\ pc = "page"
  /\ \E r \in DOMAIN runs :
       /\ runs[r].pc = "lookup"
       /\ LET res == Page_resolve(runs[r].mapData,
                                  Lookup(data, runs[r].tokensThai),
                                  runs[r].tokensThai)
              shown == [ui EXCEPT
                          !.foundWords = res.processed,
                          !.currentSinglePose =
                             IF Len(res.processed) > 0
                             THEN <<res.processed[1].fullUrl>> ELSE Null,
                          !.loadingKeywords = FALSE,
                          !.writer = r]
              noFile == Len(Run_filenames(res.processed)) = 0
          IN /\ runs' = [runs EXCEPT ![r] =
                  [@ EXCEPT !.tagged = res.tagged, !.ruleId = res.ruleId,
                            !.orderedTokens = res.orderedTokens,
                            !.processed = res.processed,
                            !.outcome = "resolved",
                            !.pc = IF noFile THEN "done" ELSE "concat",
                            !.fetched = IF noFile THEN @ ELSE @ \cup {"concat"}]]
             /\ ui' = IF noFile
                      THEN setNewBlobUrl(
                             [shown EXCEPT !.loadingSentenceVideo = FALSE], Null)
                      ELSE shown
  /\ UNCHANGED sideVars
  /\ UNCHANGED <<pc, via, tokens, tagged, ruleId, thsl, roleMap, data,
                 processed, found, missing, props>>

\* mutant: the failed lookup leaves the video flag set
LookupError_keepsVideoFlag ==
  /\ pc = "page"
  /\ \E r \in DOMAIN runs :
       /\ runs[r].pc = "lookup"
       /\ runs' = [runs EXCEPT ![r] = [@ EXCEPT !.pc = "done",
                                                !.outcome = "lookupError"]]
       /\ ui' = [ui EXCEPT !.foundWords = <<>>,
                           !.currentSinglePose = Null,
                           !.loadingKeywords = FALSE,
                           !.writer = r]
  /\ UNCHANGED sideVars
  /\ UNCHANGED <<pc, via, tokens, tagged, ruleId, thsl, roleMap, data,
                 processed, found, missing, props>>

\* SL_word answers with an error for tokensThai: setFoundWords([]) and return
LookupError ==
  /\ pc = "page"
  /\ \E r \in DOMAIN runs :
       /\ runs[r].pc = "lookup"
       /\ runs' = [runs EXCEPT ![r] = [@ EXCEPT !.pc = "done",
                                                !.outcome = "lookupError"]]
       /\ ui' = [ui EXCEPT !.foundWords = <<>>,
                           !.currentSinglePose = Null,
                           !.loadingKeywords = FALSE,
                           !.loadingSentenceVideo = FALSE,
                           !.writer = r]
  /\ UNCHANGED sideVars
  /\ UNCHANGED <<pc, via, tokens, tagged, ruleId, thsl, roleMap, data,
                 processed, found, missing, props>>

\* api/concat_video answers ok and its blob is read (no state is written
\* between the two awaits): the object URL of run r's video is shown
VideoReady ==
  /\ pc = "page"
  /\ \E r \in DOMAIN runs :
       /\ runs[r].pc = "concat"
       /\ runs' = [runs EXCEPT ![r] = [@ EXCEPT !.pc = "done"]]
       /\ ui' = [setNewBlobUrl(ui, <<r>>) EXCEPT !.loadingSentenceVideo = FALSE,
                                                 !.writer = r]
  /\ UNCHANGED sideVars
  /\ UNCHANGED <<pc, via, tokens, tagged, ruleId, thsl, roleMap, data,
                 processed, found, missing, props>>

\* api/concat_video answers not ok, or the fetch throws
VideoFailed ==
  /\ pc = "page"
  /\ \E r \in DOMAIN runs :
       /\ runs[r].pc = "concat"
       /\ runs' = [runs EXCEPT ![r] = [@ EXCEPT !.pc = "done"]]
       /\ ui' = [setNewBlobUrl([ui EXCEPT !.loadingSentenceVideo = FALSE], Null)
                   EXCEPT !.writer = r]
  /\ UNCHANGED sideVars
  /\ UNCHANGED <<pc, via, tokens, tagged, ruleId, thsl, roleMap, data,
                 processed, found, missing, props>>

-----------------------------------------------------------------------------
(* Inputs of the page *)

\* raw keywords: a compound and its parts, a word and its unnormalized
\* spelling, a blank, a digit, a word the dictionary does not have
KwPool == {<<"thorasap", "ban">>, <<"thorasap">>, <<"ban">>, <<"chan">>,
           <<ZW, "chan", SP>>, <<SP>>, <<"5">>, <<"nangsue">>}

\* original texts: none, one without blanks, ones with blanks and marks
TextInputs == {<<>>, <<"chan", "kin", "khaaw">>, <<"thorasap", "ban">>,
               <<"chan", SP, "thorasap", "ban">>, <<"5", ZW, SP, "ban">>}

PropInputs ==
  {[text |-> t, keywords |-> k] : t \in TextInputs, k \in SeqsUpTo(KwPool, MaxKw)}

\* SL_word
PageDict ==
  << Row(<<"chan">>, CatPronoun), Row(<<"kin">>, CatGeneral),
     Row(<<"kin">>, CatVerb), Row(<<"khaaw">>, CatGeneral),
     Row(<<"5">>, CatGeneral), Row(<<"5">>, CatNumeral),
     Row(<<"thorasap", "ban">>, CatGeneral), Row(<<"thorasap">>, CatGeneral),
     Row(<<"ban">>, CatPlace) >>

\* sl_category_role: a table whose roles are all rule roles, and one that
\* gives the general category a role no rule knows
PageTables ==
  { << TableRow(CatPronoun, "S", <<1>>), TableRow(CatVerb, "V", <<2>>),
       TableRow(CatNumeral, "Number", <<3>>), TableRow(CatPlace, "PP(Place)", <<4>>),
       TableRow(CatGeneral, g, <<5>>) >> : g \in {"O", "Conj"} }

InitRun ==
  /\ Idle
  /\ pc = "page"
  /\ tokens = <<>>
  /\ tagged = <<>>
  /\ roleMap \in PageTables
  /\ data = PageDict
  /\ props \in PropInputs
  /\ runs = <<>>
  /\ ui = UiInit

NextRun ==
  \/ Mount
  \/ TableLoaded
  \/ TableError
  \/ Enriched
  \/ EnrichError
  \/ Resolve
  \/ LookupError
  \/ VideoReady
  \/ VideoFailed

SpecRun == InitRun /\ [][NextRun]_vars

\* the runs of one keyword at most: the path of a run depends on the
\* keywords through the tokens that have a dictionary row only
InitFlags == InitRun /\ Len(props.keywords) <= 1

\* a run waits at the await p
AtAwait(p) == \E r \in DOMAIN runs : runs[r].pc = p

\* the awaited call of a run at p returns and the run goes on
Returned(p) == \E r \in DOMAIN runs : runs[r].pc = p /\ runs'[r].pc # p

\* a run whose awaited calls all return: the effect runs after the first
\* render, and no run waits for ever at an await (the table fetch, the
\* lookup of the text tokens, the lookup of tokensThai, api/concat_video).
\* Each conjunct is the weak fairness of the steps that follow the await; for
\* the two lookups it is written with the enabling condition spelled out
\* (the steps Enriched, EnrichError and Resolve, LookupError can be taken
\* exactly while a run is at "enrich" and "lookup").
SpecRunFair ==
  /\ InitFlags /\ [][NextRun]_vars
  /\ WF_vars(Mount)
  /\ WF_vars(TableLoaded \/ TableError)
  /\ (<>[]AtAwait("enrich") => []<><<Returned("enrich")>>_vars)
  /\ (<>[]AtAwait("lookup") => []<><<Returned("lookup")>>_vars)
  /\ WF_vars(VideoReady \/ VideoFailed)

InitStale ==
  /\ Idle
  /\ pc = "page"
  /\ tokens = <<>>
  /\ tagged = <<>>
  /\ roleMap \in PageTables
  /\ data = PageDict
  /\ props \in StaleProps
  /\ runs = <<>>
  /\ ui = UiInit

NextStale ==
  \/ Mount
  \/ PropsChange
  \/ TableLoaded
  \/ TableError
  \/ Enriched
  \/ EnrichError
  \/ Resolve
  \/ LookupError
  \/ VideoReady
  \/ VideoFailed

SpecStale == InitStale /\ [][NextStale]_vars

-----------------------------------------------------------------------------
(* Properties of the assembler (checked under SpecRun) *)

\* the runs that have assembled their token list
Assembled == {r \in DOMAIN runs : runs[r].tokensThai # <<>>}

\* t occurs in u at symbol position p (0-based)
OccursAt(u, t, p) ==
  /\ p + Len(t) <= Len(u)
  /\ SubSeq(u, p + 1, p + Len(t)) = t

IsStrictSubstring(t, u) == t # u /\ \E p \in 0..Len(u) : OccursAt(u, t, p)

FirstIndexIn(s, x) == CHOOSE i \in 1..Len(s) : s[i] = x /\ \A j \in 1..(i - 1) : s[j] # x

Compound == <<"thorasap", "ban">>

\* C11: the dominance filter removes a token exactly when it is a strict
\* substring of another token of its deduplicated input: no survivor is a
\* strict substring of a survivor, every maximal token survives, survivors
\* keep their input order; from [compound, part, part] only the compound
\* is left.
C11_CompoundDominance ==
  \A r \in Assembled :
    LET inp == runs[r].mergedTokens
        out == runs[r].mergedNoSub
    IN /\ \A i \in 1..Len(inp) :
            (inp[i] \notin Range(out))
              <=> \E j \in 1..Len(inp) : IsStrictSubstring(inp[i], inp[j])
       /\ out = SelectSeq(inp, LAMBDA t : t \in Range(out))
       /\ \A i, j \in 1..Len(out) : ~IsStrictSubstring(out[i], out[j])
       /\ Range(inp) = {Compound, <<"thorasap">>, <<"ban">>} => out = <<Compound>>

\* C11 witness: the merged list held the compound and both of its parts, and
\* only the compound survived the filter.
C11_Witness ==
  \E r \in Assembled :
    /\ Range(runs[r].mergedTokens) = {Compound, <<"thorasap">>, <<"ban">>}
    /\ runs[r].mergedNoSub = <<Compound>>

\* C12: the merged list holds every normalized non-empty word of the keywords
\* followed by the retained candidates exactly once, in the order of the
\* first occurrences, and nothing else; so keywords keep their order and come
\* before every candidate that is not a keyword.
C12_MergeDedupe ==
  \A r \in Assembled :
    LET kw == [i \in 1..Len(runs[r].keywords) |->
                 normalizeThaiToken(runs[r].keywords[i])]
        src == SelectSeq(kw \o runs[r].extraFromText, LAMBDA t : t # <<>>)
        out == runs[r].mergedTokens
    IN /\ Range(out) = Range(src)
       /\ IsInjective(out)
       /\ \A i, j \in 1..Len(out) :
            i < j => FirstIndexIn(src, out[i]) < FirstIndexIn(src, out[j])
       /\ \A i, j \in 1..Len(out) :
            (out[i] \notin Range(kw) /\ out[j] \in Range(kw)) => j < i

\* C12 witness: two spellings of one keyword were merged into one word, and a
\* retained candidate that is no keyword follows the keywords.
C12_Witness ==
  \E r \in Assembled :
    /\ runs[r].keywords = <<<<"chan">>, <<ZW, "chan", SP>>>>
    /\ runs[r].extraFromText # <<>>
    /\ Len(runs[r].mergedTokens) >= 2
    /\ runs[r].mergedTokens[1] = <<"chan">>
    /\ runs[r].mergedTokens[2] \in Range(runs[r].extraFromText)

\* the symbol position of the first occurrence of a token in a text; the
\* length of the text plus one when it does not occur
FirstPosition(text, t) ==
  IF \E p \in 0..Len(text) : OccursAt(text, t, p)
  THEN CHOOSE p \in 0..Len(text) :
         OccursAt(text, t, p) /\ \A q \in 0..(p - 1) : ~OccursAt(text, t, q)
  ELSE Len(text) + 1

\* C13: tokensThai is the filtered list sorted by the offset of each token's
\* first occurrence in the text without its zero-width marks; tokens that do
\* not occur come last; tokens of equal offset keep their input order; the
\* result is a permutation of the filtered list.
C13_SurfaceOrder ==
  \A r \in Assembled :
    LET text == SelectSeq(runs[r].text, LAMBDA c : c # ZW)
        inp == runs[r].mergedNoSub
        out == runs[r].tokensThai
    IN /\ Len(out) = Len(inp)
       /\ BagOfSeq(out) = BagOfSeq(inp)
       /\ \A i, j \in 1..Len(out) :
            i < j =>
              \/ FirstPosition(text, out[i]) < FirstPosition(text, out[j])
              \/ /\ FirstPosition(text, out[i]) = FirstPosition(text, out[j])
                 /\ FirstIndexIn(inp, out[i]) < FirstIndexIn(inp, out[j])

\* C13 witness: a keyword that the text lacks was moved behind a word of the
\* text, and two absent tokens kept their order.
C13_Witness ==
  \E r \in Assembled :
    LET text == SelectSeq(runs[r].text, LAMBDA c : c # ZW)
        inp == runs[r].mergedNoSub
        out == runs[r].tokensThai
    IN /\ Len(inp) >= 3
       /\ FirstPosition(text, inp[1]) > Len(text)
       /\ FirstPosition(text, inp[2]) > Len(text)
       /\ FirstPosition(text, inp[3]) <= Len(text)
       /\ out = <<inp[3], inp[1], inp[2]>> \o SubSeq(inp, 4, Len(inp))

-----------------------------------------------------------------------------
(* components/PosePlayer.tsx: the playlist and the pose loader *)

\* most loads one PosePlayer starts
MaxLoads == 3

\* the props of a PosePlayer: poseUrl (<<>> when absent) and poseUrls
PlayerProp(poseUrl, poseUrls) == [poseUrl |-> poseUrl, poseUrls |-> poseUrls]

PlayerProps ==
  {PlayerProp(<<>>, <<>>), PlayerProp(<<"a.pose">>, <<>>),
   PlayerProp(<<"b.pose">>, <<"a.pose">>), PlayerProp(<<>>, <<"b.pose">>),
   PlayerProp(<<>>, <<"a.pose", "b.pose">>)}

\* the effect on [poseUrl, poseUrls]: the playlist and the clip index
Player_setPlaylist(p, pr) ==
  IF pr.poseUrl # <<>>
  THEN [p EXCEPT !.playlist = pr.poseUrl, !.currentUrlIndex = 0]
  ELSE IF Len(pr.poseUrls) > 0
  THEN [p EXCEPT !.playlist = pr.poseUrls, !.currentUrlIndex = 0]
  ELSE [p EXCEPT !.playlist = <<>>]

\* playlist[currentUrlIndex], <<>> when undefined
Player_url(p) ==
  IF p.currentUrlIndex + 1 <= Len(p.playlist)
  THEN <<p.playlist[p.currentUrlIndex + 1]>>
  ELSE <<>>

\* the effect on [playlist, currentUrlIndex]: the cleanup of the previous
\* effect clears its active flag; loadPose returns at once without a url,
\* else it clears frames and err and starts to fetch the pose file
Player_loadEffect(p) ==
  LET cleaned == [l \in 1..Len(p.loads) |-> [p.loads[l] EXCEPT !.active = FALSE]]
      url == Player_url(p)
  IN IF url = <<>>
     THEN [p EXCEPT !.loads = cleaned]
     ELSE [p EXCEPT !.frames = <<>>, !.err = <<>>,
                    !.loads = Append(cleaned,
                      [url |-> url[1], active |-> TRUE, outcome |-> "pending"])]

\* mutant: the result of a load is written whether or not the load is active
Player_settle_unguarded(p, l, field, value) ==
  [p EXCEPT !.loads[l].outcome = "applied",
            ![field] = <<[load |-> l, value |-> value]>>,
            !.staleWrite = (@ \/ l # Len(p.loads) \/ ~p.mounted)]

\* the end of load l: setFrames or setErr if the load is still active
\* (staleWrite records a write by a load that is not the latest, or after
\* the unmount)
Player_settle(p, l, field, value) ==
  IF p.loads[l].active
  THEN [p EXCEPT !.loads[l].outcome = "applied",
                 ![field] = <<[load |-> l, value |-> value]>>,
                 !.staleWrite = (@ \/ l # Len(p.loads) \/ ~p.mounted)]
  ELSE [p EXCEPT !.loads[l].outcome = "discarded"]

InitPlayer ==
  /\ via = "none"
  /\ ruleId = NoRule
  /\ thsl = <<>>
  /\ processed = <<>>
  /\ found = <<>>
  /\ missing = <<>>
  /\ PageIdle
  /\ applied = AppliedIdle
  /\ norm = NormIdle
  /\ pc = "player"
  /\ tokens = <<>>
  /\ tagged = <<>>
  /\ roleMap = <<>>
  /\ data = <<>>
  /\ player = PlayerIdle

\* the first render of a PosePlayer: both effects run
PlayerMount ==
  /\ pc = "player"
  /\ ~player.mounted /\ player.loads = <<>>
  /\ \E pr \in PlayerProps, loop \in BOOLEAN :
       player' = Player_loadEffect(Player_setPlaylist(
                   [player EXCEPT !.mounted = TRUE, !.loopPlaylist = loop], pr))
  /\ UNCHANGED <<pc, via, tokens, tagged, ruleId, thsl, roleMap, data,
                 processed, found, missing, applied, norm>>
  /\ UNCHANGED pageVars

\* the parent renders the player with new poseUrl or poseUrls
PlayerPropsChange ==
  /\ pc = "player"
  /\ player.mounted
  /\ Len(player.loads) < MaxLoads
  /\ \E pr \in PlayerProps :
       player' = Player_loadEffect(Player_setPlaylist(player, pr))
  /\ UNCHANGED <<pc, via, tokens, tagged, ruleId, thsl, roleMap, data,
                 processed, found, missing, applied, norm>>
  /\ UNCHANGED pageVars

\* render: the clip has played to its end and the playlist has another clip
ClipEnded ==
  /\ pc = "player"
  /\ player.mounted
  /\ Len(player.loads) < MaxLoads
  /\ player.frames # <<>>
  /\ Len(player.playlist) > 1
  /\ \/ /\ player.currentUrlIndex < Len(player.playlist) - 1
        /\ player' = Player_loadEffect(
                       [player EXCEPT !.currentUrlIndex = @ + 1])
     \/ /\ player.currentUrlIndex >= Len(player.playlist) - 1
        /\ player.loopPlaylist
        /\ player' = Player_loadEffect([player EXCEPT !.currentUrlIndex = 0])
  /\ UNCHANGED <<pc, via, tokens, tagged, ruleId, thsl, roleMap, data,
                 processed, found, missing, applied, norm>>
  /\ UNCHANGED pageVars

\* Pose.fromRemote resolved and the file has frames
LoadFrames ==
  /\ pc = "player"
  /\ \E l \in 1..Len(player.loads) :
       /\ player.loads[l].outcome = "pending"
       /\ player' = Player_settle(player, l, "frames", player.loads[l].url)
  /\ UNCHANGED <<pc, via, tokens, tagged, ruleId, thsl, roleMap, data,
                 processed, found, missing, applied, norm>>
  /\ UNCHANGED pageVars

\* Pose.fromRemote resolved and the file has no frame: loadPose throws
LoadNoFrames ==
  /\ pc = "player"
  /\ \E l \in 1..Len(player.loads) :
       /\ player.loads[l].outcome = "pending"
       /\ player' = Player_settle(player, l, "err", "No frames")
  /\ UNCHANGED <<pc, via, tokens, tagged, ruleId, thsl, roleMap, data,
                 processed, found, missing, applied, norm>>
  /\ UNCHANGED pageVars

\* Pose.fromRemote rejected
LoadRejected ==
  /\ pc = "player"
  /\ \E l \in 1..Len(player.loads) :
       /\ player.loads[l].outcome = "pending"
       /\ player' = Player_settle(player, l, "err", "Error loading file")
  /\ UNCHANGED <<pc, via, tokens, tagged, ruleId, thsl, roleMap, data,
                 processed, found, missing, applied, norm>>
  /\ UNCHANGED pageVars

\* the player is unmounted: the cleanup of the load effect runs
PlayerUnmount ==
  /\ pc = "player"
  /\ player.mounted
  /\ player' = [player EXCEPT
        !.mounted = FALSE,
        !.loads = [l \in 1..Len(player.loads) |->
                     [player.loads[l] EXCEPT !.active = FALSE]]]
  /\ UNCHANGED <<pc, via, tokens, tagged, ruleId, thsl, roleMap, data,
                 processed, found, missing, applied, norm>>
  /\ UNCHANGED pageVars

NextPlayer ==
  \/ PlayerMount
  \/ PlayerPropsChange
  \/ ClipEnded
  \/ LoadFrames
  \/ LoadNoFrames
  \/ LoadRejected
  \/ PlayerUnmount

SpecPlayer == InitPlayer /\ [][NextPlayer]_vars

-----------------------------------------------------------------------------
(* Properties of the pose loader (checked under SpecPlayer) *)

\* the load started for the current clip: the latest load, when the player
\* is mounted and the playlist has a clip at the current index
CurrentLoad ==
  IF player.mounted /\ Player_url(player) # <<>> THEN {Len(player.loads)} ELSE {}

\* the loads whose result is on display
Shown == {player.frames[i].load : i \in 1..Len(player.frames)}
           \cup {player.err[i].load : i \in 1..Len(player.err)}

Player_FramesOutliveClip ==
  /\ player.mounted
  /\ Player_url(player) = <<>>
  /\ player.frames # <<>>

-----------------------------------------------------------------------------
(* The two normalizers applied to the same string *)

\* longest string handed to the normalizers
MaxStr == 4

\* a punctuation mark of the class [.,!?;:"'(){}\[\]<>]
Punctuation == {"."}

\* the symbols of the strings: a blank, a zero-width mark (U+200B), a
\* punctuation mark and a letter
NormSymbols == WhiteSpace \cup ZeroWidth \cup Punctuation \cup {"a"}

\* replace(/\s+/g, " "): every run of whitespace becomes one blank
RECURSIVE CollapseWs(_)
CollapseWs(s) ==
  IF s = <<>> THEN <<>>
  ELSE IF Head(s) \in WhiteSpace
       THEN IF Len(s) > 1 /\ s[2] \in WhiteSpace
            THEN CollapseWs(Tail(s))
            ELSE <<SP>> \o CollapseWs(Tail(s))
       ELSE <<Head(s)>> \o CollapseWs(Tail(s))

\* normalizeToken of the server: trim, drop punctuation, collapse whitespace,
\* trim
normalizeToken(t) ==
  Trim(CollapseWs(SelectSeq(Trim(t), LAMBDA c : c \notin Punctuation)))

InitNormalize ==
  /\ via = "none"
  /\ ruleId = NoRule
  /\ thsl = <<>>
  /\ processed = <<>>
  /\ found = <<>>
  /\ missing = <<>>
  /\ PageIdle
  /\ applied = AppliedIdle
  /\ player = PlayerIdle
  /\ pc = "normalize"
  /\ tokens = <<>>
  /\ tagged = <<>>
  /\ roleMap = <<>>
  /\ data = <<>>
  /\ \E s \in SeqsUpTo(NormSymbols, MaxStr) : norm = [NormIdle EXCEPT !.input = s]

\* the string a normalizer is applied to next: the input, then its own result
NextArg(results) == IF results = <<>> THEN norm.input ELSE results[Len(results)]

\* ResultPage.tsx: normalizeThaiToken, applied to the input and then to its
\* own result
NormalizeThaiToken ==
  /\ pc = "normalize"
  /\ Len(norm.thai) < 2
  /\ norm' = [norm EXCEPT !.thai = Append(@, normalizeThaiToken(NextArg(norm.thai)))]
  /\ UNCHANGED <<pc, via, tokens, tagged, ruleId, thsl, roleMap, data,
                 processed, found, missing, applied, player>>
  /\ UNCHANGED pageVars

\* the server: normalizeToken, applied to the input and then to its own result
NormalizeToken ==
  /\ pc = "normalize"
  /\ Len(norm.server) < 2
  /\ norm' = [norm EXCEPT !.server = Append(@, normalizeToken(NextArg(norm.server)))]
  /\ UNCHANGED <<pc, via, tokens, tagged, ruleId, thsl, roleMap, data,
                 processed, found, missing, applied, player>>
  /\ UNCHANGED pageVars

NextNormalize == NormalizeThaiToken \/ NormalizeToken

SpecNormalize == InitNormalize /\ [][NextNormalize]_vars

-----------------------------------------------------------------------------
(* Properties of the normalizers (checked under SpecNormalize) *)

NoZeroWidth(t) == \A i \in 1..Len(t) : t[i] \notin ZeroWidth

Trimmed(t) == t # <<>> => (t[1] \notin WhiteSpace /\ t[Len(t)] \notin WhiteSpace)

NoRun(t) ==
  \A i \in 1..(Len(t) - 1) : ~(t[i] \in WhiteSpace /\ t[i + 1] \in WhiteSpace)

\* no zero-width mark, no blank at either end, no two blanks in a row
WellFormedToken(t) == NoZeroWidth(t) /\ Trimmed(t) /\ NoRun(t)

\* a normalizer applied to its own result returns it
Idempotent(results) == Len(results) = 2 => results[2] = results[1]

\* C25: both normalizers are idempotent, and a normalized token holds no
\* zero-width mark, no whitespace at either end and no run of more than one
\* whitespace character.
C25_Normalization ==
  /\ Idempotent(norm.thai)
  /\ Idempotent(norm.server)
  /\ \A i \in 1..Len(norm.thai) : WellFormedToken(norm.thai[i])
  /\ \A i \in 1..Len(norm.server) : WellFormedToken(norm.server[i])

\* what does hold: both normalizers are idempotent; normalizeThaiToken leaves
\* no zero-width mark and no whitespace at either end; normalizeToken leaves
\* no whitespace at either end and no run of whitespace
Normalize_Holds ==
  /\ Idempotent(norm.thai)
  /\ Idempotent(norm.server)
  /\ \A i \in 1..Len(norm.thai) :
       NoZeroWidth(norm.thai[i]) /\ Trimmed(norm.thai[i])
  /\ \A i \in 1..Len(norm.server) :
       Trimmed(norm.server[i]) /\ NoRun(norm.server[i])

\* normalizeThaiToken has returned a token with two blanks in a row
Normalize_RunOfBlanks ==
  \E i \in 1..Len(norm.thai) : \E j \in 1..(Len(norm.thai[i]) - 1) :
    norm.thai[i][j] \in WhiteSpace /\ norm.thai[i][j + 1] \in WhiteSpace

\* normalizeToken has returned a token with a zero-width mark
Normalize_ZeroWidthKept ==
  \E i \in 1..Len(norm.server) : \E j \in 1..Len(norm.server[i]) :
    norm.server[i][j] \in ZeroWidth

-----------------------------------------------------------------------------
(* Properties of a run (checked under SpecRun) *)

\* the rows the dictionary holds for a token
dictRowsOf(t) == SelectSeq(data, LAMBDA row : row.word = t)

\* the tokens of a list that have a dictionary row
withEntry(toks) == SelectSeq(toks, LAMBDA t : dictRowsOf(t) # <<>>)

\* the runs whose table fetch failed (or returned no row) and that have
\* resolved their tokens
ResolvedWithoutTable ==
  {r \in DOMAIN runs : runs[r].outcome = "resolved" /\ runs[r].mapData = <<>>}

\* C16: when the table fetch fails or returns no row the run goes on: every
\* token with a dictionary entry is tagged with the default role O, at
\* priority 999 the first candidate of a token is picked, no rule matches the
\* O-only roles and the resolved entries follow in token order.
C16_TableUnavailable ==
  /\ \A r \in DOMAIN runs :
       (runs[r].pc = "done" /\ runs[r].kwTokens # <<>> /\ runs[r].mapData = <<>>)
         => "lookup" \in runs[r].fetched
  /\ \A r \in ResolvedWithoutTable :
       LET toks == withEntry(runs[r].tokensThai)
       IN /\ runs[r].tagged = [i \in 1..Len(toks) |-> [word |-> toks[i], role |-> "O"]]
          /\ runs[r].ruleId = NoRule
          /\ runs[r].orderedTokens = toks
          /\ [i \in 1..Len(runs[r].processed) |-> runs[r].processed[i].word] = toks
          /\ \A i \in 1..Len(toks) :
               ~isNumberToken(toks[i]) =>
                 runs[r].processed[i].category = dictRowsOf(toks[i])[1].category

\* C16 witness: after a failed table fetch a run resolved two tokens, one of
\* them with two dictionary candidates, both tagged O.
C16_Witness ==
  \E r \in ResolvedWithoutTable :
    /\ Len(runs[r].tagged) >= 2
    /\ \E i \in 1..Len(runs[r].tagged) : Len(dictRowsOf(runs[r].tagged[i].word)) = 2
    /\ ui.foundWords = runs[r].processed

\* C17: with an empty original text, or with keywords that are none or all
\* blank, the run ends at once with an empty result (no words, no pose, no
\* video) and fetches nothing.
C17_MalformedInput ==
  \A r \in DOMAIN runs :
    (props.text = <<>> \/ \A i \in 1..Len(props.keywords) :
                             \A k \in 1..Len(props.keywords[i]) :
                               props.keywords[i][k] \in {SP, ZW})
      => /\ runs[r].pc = "done"
         /\ runs[r].fetched = {}
         /\ ui.foundWords = <<>>
         /\ ui.currentSinglePose = <<>>
         /\ ui.sentenceVideoUrl = <<>>

\* what run guarantees: keywords that are none or all blank end it at once
\* with an empty result and no fetch
Run_EmptyKeywords ==
  \A r \in DOMAIN runs :
    (\A i \in 1..Len(props.keywords) :
       \A k \in 1..Len(props.keywords[i]) : props.keywords[i][k] \in {SP, ZW})
      => /\ runs[r].pc = "done"
         /\ runs[r].fetched = {}
         /\ ui.foundWords = <<>>
         /\ ui.currentSinglePose = <<>>
         /\ ui.sentenceVideoUrl = <<>>

\* C19: no failed fetch ends the request empty-handed: a finished run that
\* had keywords has resolved every token that has a dictionary entry, and
\* the page shows those entries.
C19_NoFatalFailure ==
  \A r \in DOMAIN runs :
    (runs[r].pc = "done" /\ runs[r].kwTokens # <<>>) =>
      /\ runs[r].outcome = "resolved"
      /\ Len(runs[r].processed) = Len(withEntry(runs[r].tokensThai))
      /\ ui.foundWords = runs[r].processed

\* what run guarantees: a failed table fetch or a failed lookup of the text
\* tokens does not end the run; it goes on to the lookup of tokensThai
Run_EarlyFailuresNotFatal ==
  \A r \in DOMAIN runs :
    (runs[r].kwTokens # <<>> /\ runs[r].pc \notin {"table", "enrich"})
      => /\ runs[r].tokensThai # <<>>
         /\ "lookup" \in runs[r].fetched

\* the runs whose lookup of the text tokens returned
Enriched_ok == {r \in DOMAIN runs : runs[r].enriched = "ok"}

\* the role the table of a run gives a category (O by default)
runRole(r, category) ==
  LET hits == SelectSeq(runs[r].mapData, LAMBDA row : row.category = category)
  IN IF hits = <<>> THEN "O" ELSE hits[Len(hits)].role[1]

\* the category the enrichment pass picked for a text token
bestCategory(r, t) ==
  LET hits == SelectSeq(runs[r].textBest, LAMBDA b : b.word = t)
  IN IF hits = <<>> THEN <<>> ELSE hits[1].category

\* C21: the best category the enrichment pass gives a text token is the one
\* the Lexical Resolver gives it: a word resolved in the final pass of a run
\* carries the category the enrichment pass of that run picked for it.
C21_EnrichmentUsesResolver ==
  \A r \in Enriched_ok :
    runs[r].outcome = "resolved" =>
      \A i \in 1..Len(runs[r].processed) :
        LET e == runs[r].processed[i]
        IN bestCategory(r, e.word) # <<>> =>
             e.category = bestCategory(r, e.word)

\* the divergence: a numeric token whose best category in the enrichment pass
\* is not the category the final pass resolves it to
Enrichment_Disagrees ==
  \E r \in Enriched_ok :
    /\ runs[r].outcome = "resolved"
    /\ \E i \in 1..Len(runs[r].processed) :
         LET e == runs[r].processed[i]
         IN /\ isNumberToken(e.word)
            /\ bestCategory(r, e.word) # <<>>
            /\ e.category # bestCategory(r, e.word)

\* off the numeric tokens the two passes agree: a resolved word that is not
\* numeric carries the category the enrichment pass picked for it
Enrichment_AgreesOffDigits ==
  \A r \in Enriched_ok :
    runs[r].outcome = "resolved" =>
      \A i \in 1..Len(runs[r].processed) :
        LET e == runs[r].processed[i]
        IN (~isNumberToken(e.word) /\ bestCategory(r, e.word) # <<>>) =>
             e.category = bestCategory(r, e.word)

\* the candidates of a run that have a dictionary row and a salient best role
salientCandidates(r) ==
  SelectSeq(runs[r].candidateTextTokens,
            LAMBDA t : /\ dictRowsOf(t) # <<>>
                       /\ runRole(r, bestCategory(r, t)) \in IMPORTANT_ROLES)

\* C22: the enrichment retains exactly the segmented text tokens that have a
\* dictionary entry and whose best category has a salient role, each once, in
\* the order of the segmentation; a failed lookup of the text tokens retains
\* none.
C22_SalientFilter ==
  \A r \in DOMAIN runs :
    /\ r \in Enriched_ok => runs[r].extraFromText = salientCandidates(r)
    /\ r \notin Enriched_ok => runs[r].extraFromText = <<>>
    /\ \A i, j \in 1..Len(runs[r].extraFromText) :
         runs[r].extraFromText[i] = runs[r].extraFromText[j] => i = j

\* C22 witness: an enrichment that retained two tokens and rejected, for its
\* role, a token that has a dictionary row.
C22_Witness ==
  \E r \in Enriched_ok :
    /\ Len(runs[r].extraFromText) = 2
    /\ \E i \in 1..Len(runs[r].candidateTextTokens) :
         LET t == runs[r].candidateTextTokens[i]
         IN dictRowsOf(t) # <<>> /\ t \notin Range(runs[r].extraFromText)

\* C28: the salient list holds every value of the Role enumeration, so only a
\* best role outside the enumeration rejects a token, and with a failed or
\* empty table every segmented token that has a dictionary row is retained.
C28_SalientCoversRoles ==
  /\ \A role \in Role : role \in IMPORTANT_ROLES
  /\ \A r \in Enriched_ok :
       /\ runs[r].mapData = <<>> =>
            runs[r].extraFromText = withEntry(runs[r].candidateTextTokens)
       /\ \A i \in 1..Len(runs[r].candidateTextTokens) :
            LET t == runs[r].candidateTextTokens[i]
            IN (dictRowsOf(t) # <<>> /\ t \notin Range(runs[r].extraFromText))
                 => runRole(r, bestCategory(r, t)) \notin Role

\* C28 witness: with no table, an enrichment retained two segmented tokens.
C28_Witness ==
  \E r \in Enriched_ok :
    /\ runs[r].mapData = <<>>
    /\ Len(runs[r].extraFromText) >= 2
    /\ runs[r].extraFromText = withEntry(runs[r].candidateTextTokens)

-----------------------------------------------------------------------------
(* Properties of the loading flags (checked under SpecRunFair) *)

Loading == ui.loadingKeywords \/ ui.loadingSentenceVideo

\* C30: a run that has set loadingKeywords and loadingSentenceVideo sets both
\* back to false on every path, provided its awaited calls return: whenever a
\* flag is set, a state follows in which neither is.
C30_FlagsClear == Loading ~> ~Loading

\* C30 witness: a run that had set the flags has ended with its video shown
\* and neither flag set.
C30_Witness ==
  \E r \in DOMAIN runs :
    /\ runs[r].pc = "done"
    /\ runs[r].kwTokens # <<>>
    /\ "concat" \in runs[r].fetched
    /\ ui.sentenceVideoUrl = <<r>>
    /\ ~Loading

\* the flags while a run is on its way: both are set until the lookup of
\* tokensThai has answered, the video flag until api/concat_video has, and
\* none once the run has ended
Flags_FollowRun ==
  \A r \in DOMAIN runs :
    /\ runs[r].pc \in {"table", "enrich", "lookup"} =>
         (ui.loadingKeywords /\ ui.loadingSentenceVideo)
    /\ runs[r].pc = "concat" => (~ui.loadingKeywords /\ ui.loadingSentenceVideo)
    /\ runs[r].pc = "done" => ~Loading

\* the run ended without a pose filename: no video is asked for
Run_NoFilenames ==
  \E r \in DOMAIN runs :
    /\ runs[r].outcome = "resolved"
    /\ runs[r].processed = <<>>
    /\ runs[r].pc = "done"
    /\ "concat" \notin runs[r].fetched

-----------------------------------------------------------------------------
(* Properties of overlapping runs (checked under SpecStale) *)

AllDone == runs # <<>> /\ \A r \in DOMAIN runs : runs[r].pc = "done"

\* C18: once new text or keywords have started a newer run, no write of a
\* superseded run is applied any more, and when all runs have ended the page
\* shows the result of the newest run: its words, its first pose, its video.
C18_StaleDiscarded ==
  /\ ui.writer \in {0, Len(runs)}
  /\ AllDone =>
       LET n == Len(runs) IN
       /\ ui.foundWords = runs[n].processed
       /\ ui.currentSinglePose = IF runs[n].processed = <<>> THEN <<>>
                                 ELSE <<runs[n].processed[1].fullUrl>>
       /\ ui.sentenceVideoUrl \in {<<>>, <<n>>}

\* the stale outcome: both runs have ended and the page shows the words of
\* the superseded run, not those of the newest
Stale_Shown ==
  /\ AllDone
  /\ Len(runs) = 2
  /\ runs[1].processed # runs[2].processed
  /\ ui.foundWords = runs[1].processed

====
